---- MODULE Spec2Model ----
(***************************************************************************)
(* A model of grail, a provider-abstraction layer for AI text and image    *)
(* generation: the request validator, the model resolution and dispatch of *)
(* Client.Generate, the Gemini and OpenAI adapters' DoGenerate, the       *)
(* error model with its retryability classification, the helpers of        *)
(* Response, the model catalog of the client and its remote-fetch helpers, *)
(* the image sniffer, Client.GenerateText with its option validation, the  *)
(* accesses of concurrent callers to a shared provider, the options of     *)
(* OutputJSON, the construction of a provider from its options and the     *)
(* environment, InputFileFromPath, and the tier slots of the Gemini        *)
(* provider.                                                               *)
(*                                                                         *)
(* Byte slices are modelled by their length and their leading bytes (the   *)
(* only bytes the code inspects); strings that the code takes apart (MIME  *)
(* types) are sequences of tokens; an error value is its Unwrap chain,     *)
(* outermost first, and the nil error is the empty chain.                  *)
(***************************************************************************)
EXTENDS Integers, Sequences, FiniteSets, TLC

VARIABLES
    client,      \* the *client built by NewClient: its bound provider
    req,         \* the Request the caller builds and passes to Generate
    phase,       \* "build": the caller is building req; "done": Generate returned
    result,      \* what the last Generate returned: [resp, err]
    dispatched,  \* the requests the provider's DoGenerate received in that call
    resolved,    \* the <<role, tier>> pairs its ResolveModel received in that call
    vendor,      \* the vendor API calls the adapter made in that call
    returns,     \* what each of those DoGenerate calls returned: [resp, err]
    err,         \* the error value under construction (error model)
    flagCalls,   \* the arguments of the WithRetryable calls made on err
    retryResult, \* what the last IsRetryable(err) returned: "none", "true" or "false"
    response,    \* the Response a provider has built (response helpers)
    helperResult,\* what the last call of Text, Images or DecodeJSON on it returned
    lookup,      \* what the last ListModels or GetModel of the client returned
    fetched,     \* what the last remote-fetch helper of the client did and returned
    sniffCall,   \* what the last SniffImageMIME call was given and returned
    textResult,  \* what the last Client.GenerateText was given, returned and dispatched
    built,       \* what the last provider constructor (New) was given and returned
    fileFromPath,\* what the last InputFileFromPath was given and returned
    shared,      \* the fields of a *Provider that several clients and callers share
    callers,     \* the position of each concurrent caller in the call it is making
    jsonOpts     \* the options the caller passed to OutputJSON to build req.Output

vars == <<client, req, phase, result, dispatched, resolved, vendor, returns,
          err, flagCalls, retryResult, response, helperResult, lookup, fetched,
          sniffCall, textResult, built, fileFromPath, shared, callers, jsonOpts>>

genVars == <<client, req, phase, result, dispatched, resolved, vendor, returns>>
errVars == <<err, flagCalls, retryResult>>
auxVars == <<response, helperResult, lookup, fetched>>
extVars == <<sniffCall, textResult, built, fileFromPath, shared, callers, jsonOpts>>
coreVars == <<genVars, errVars, auxVars>>

-----------------------------------------------------------------------------
(* Bounds of the exploration *)

MaxInputs == 2
MaxChain == 3
MaxFlagCalls == 2
MaxOptions == 1

-----------------------------------------------------------------------------
(* Byte slices and strings *)

\* A []byte: its length and its first min(len, HeadLen) bytes.
HeadLen == 12

Bytes(s) == [len |-> Len(s), head |-> s]

\* A slice of n bytes that starts with s.
BytesOfLen(n, s) == [len |-> n, head |-> s]

HasPrefix(s, p) == Len(s) >= Len(p) /\ SubSeq(s, 1, Len(p)) = p

MIMEEmpty == <<>>
MIMEPNG == <<"image", "/", "png">>
MIMEJPEG == <<"image", "/", "jpeg">>
MIMEGIF == <<"image", "/", "gif">>
MIMEWebP == <<"image", "/", "webp">>
MIMEPDF == <<"application", "/", "pdf">>
MIMEText == <<"text", "/", "plain">>
MIMEOctet == <<"application", "/", "octet-stream">>
ImagePrefix == <<"image", "/">>

PNGMagic == <<137, 80, 78, 71>>
GIF87a == <<71, 73, 70, 56, 55, 97>>
GIF89a == <<71, 73, 70, 56, 57, 97>>
RIFF == <<82, 73, 70, 70>>
WEBP == <<87, 69, 66, 80>>
PDFMagic == <<37, 80, 68, 70>>

\* data[lo:hi] of Go, on the leading bytes (hi <= HeadLen).
Slice(data, lo, hi) == SubSeq(data.head, lo + 1, hi)

SniffImageMIME(data) ==
    IF data.len < 4 THEN MIMEEmpty
    ELSE IF data.len >= 4 /\ Slice(data, 0, 4) = PNGMagic THEN MIMEPNG
    ELSE IF data.len >= 2 /\ data.head[1] = 255 /\ data.head[2] = 216 THEN MIMEJPEG
    ELSE IF data.len >= 6 /\ (Slice(data, 0, 6) = GIF87a \/ Slice(data, 0, 6) = GIF89a)
        THEN MIMEGIF
    ELSE IF data.len >= 12 /\ Slice(data, 0, 4) = RIFF /\ Slice(data, 8, 12) = WEBP
        THEN MIMEWebP
    ELSE MIMEEmpty

sniffImageMIME(data) == SniffImageMIME(data)

-----------------------------------------------------------------------------
(* Errors *)

InvalidArgument == "invalid_argument"
Unauthorized == "unauthorized"
RateLimited == "rate_limited"
Timeout == "timeout"
Unavailable == "unavailable"
Unsupported == "unsupported"
Refused == "refused"
OutputInvalid == "output_invalid"
Internal == "internal"

ErrorCodes == {InvalidArgument, Unauthorized, RateLimited, Timeout, Unavailable,
               Unsupported, Refused, OutputInvalid, Internal}

nil == <<>>

\* errors.New / fmt.Errorf without %w: an error that is no GrailError.
PlainError(text) ==
    <<[kind |-> "plain", code |-> "", message |-> text, retryable |-> FALSE,
       providerName |-> ""]>>

\* An error returned by a vendor SDK: no GrailError; text is what its
\* Error() prints, as a sequence of words.
SDKError(text) ==
    <<[kind |-> "plain", code |-> "", message |-> "vendor error", retryable |-> FALSE,
       providerName |-> "", text |-> text]>>

NewGrailError(code, message) ==
    <<[kind |-> "grail", code |-> code, message |-> message, retryable |-> FALSE,
       providerName |-> ""]>>

WithCause(e, cause) == <<e[1]>> \o cause

WithRetryable(e, retryable) == <<[e[1] EXCEPT !.retryable = retryable]>> \o Tail(e)

WithProviderName(e, name) == <<[e[1] EXCEPT !.providerName = name]>> \o Tail(e)

\* fmt.Errorf("...: %w", e)
Wrap(e) == PlainError("wrap") \o e

\* errors.As(err, &ge) with ge a GrailError: the first GrailError of the chain.
RECURSIVE AsGrailError(_)
AsGrailError(e) ==
    IF e = nil THEN nil
    ELSE IF e[1].kind = "grail" THEN <<e[1]>>
    ELSE AsGrailError(Tail(e))

GetErrorCode(e) ==
    IF e = nil THEN ""
    ELSE IF AsGrailError(e) # nil THEN AsGrailError(e)[1].code
    ELSE Internal

\* Faulty variant: only the flag is consulted, the defaults of the codes are lost.
IsRetryableFlagOnly(e) ==
    AsGrailError(e) # nil /\ AsGrailError(e)[1].retryable

IsRetryable(e) ==
    IF AsGrailError(e) # nil
    THEN IF AsGrailError(e)[1].retryable
         THEN TRUE
         ELSE AsGrailError(e)[1].code \in {RateLimited, Timeout, Unavailable}
    ELSE GetErrorCode(e) \in {RateLimited, Timeout, Unavailable}

-----------------------------------------------------------------------------
(* Content model: inputs, outputs, requests, responses *)

MaxPDFSize == 52428800
MaxFileSize == 104857600

InputText(s) == [kind |-> "text", Text |-> s]

InputFile(data, mime, name) == [kind |-> "file", Data |-> data, MIME |-> mime, Name |-> name]

InputPDF(data, name) == InputFile(data, MIMEPDF, name)

InputImage(data, name) == InputFile(data, MIMEEmpty, name)

InputFileReader(size, mime, name) ==
    [kind |-> "fileReader", Size |-> size, MIME |-> mime, Name |-> name]

NilOutput == [kind |-> "nil"]
OutputText == [kind |-> "text"]
OutputImage(count) == [kind |-> "image", Count |-> count]
OutputJSON(strict) == [kind |-> "json", Strict |-> strict]

IsTextOutput(output) == output.kind = "text"
IsImageOutput(output) == output.kind = "image"
IsJSONOutput(output) == output.kind = "json"

NewTextOutputPart(text) == [kind |-> "text", Text |-> text]
NewImageOutputPart(data, mime) == [kind |-> "image", Data |-> data, MIME |-> mime]
NewJSONOutputPart(json) == [kind |-> "json", JSON |-> json]

EmptyRequest ==
    [Inputs |-> <<>>, Output |-> NilOutput, Model |-> "", Tier |-> "",
     ProviderOptions |-> <<>>]

\* Response{}
EmptyResponse ==
    [Outputs |-> <<>>, Provider |-> [Name |-> "", Route |-> "", Models |-> <<>>]]

ModelRoleText == "text"
ModelRoleImage == "image"
ModelTierBest == "best"
ModelTierFast == "fast"

-----------------------------------------------------------------------------
(* Request validator *)

isEmptyData(v) == v.Data.len = 0

exceedsMaxFileSize(size) == size > MaxFileSize

\* Faulty variant: the PDF bound is off by one.
exceedsMaxPDFSizeInclusive(v) == v.Data.len >= MaxPDFSize

exceedsMaxPDFSize(v) == v.Data.len > MaxPDFSize

\* Faulty variant: an input with no declared MIME is taken for an image unchecked.
validateInputTrustingImages(v) ==
    IF v.kind = "file" THEN
        IF v.Data.len = 0 THEN NewGrailError(InvalidArgument, "file data is empty")
        ELSE IF v.Data.len > MaxFileSize
            THEN NewGrailError(InvalidArgument, "file size exceeds maximum")
        ELSE IF v.MIME = MIMEPDF /\ v.Data.len > MaxPDFSize
            THEN NewGrailError(InvalidArgument, "PDF file size exceeds maximum")
        ELSE nil
    ELSE IF v.kind = "text" THEN nil
    ELSE IF v.MIME = MIMEEmpty
        THEN NewGrailError(InvalidArgument, "MIME type must be specified")
    ELSE IF v.Size > 0 /\ v.Size > MaxFileSize
        THEN NewGrailError(InvalidArgument, "file size exceeds maximum")
    ELSE nil

\* Faulty variant: a reader of unknown size (-1) is refused.
validateReaderKnownSizeOnly(v) ==
    IF v.MIME = MIMEEmpty
        THEN NewGrailError(InvalidArgument, "MIME type must be specified")
    ELSE IF v.Size < 0 \/ exceedsMaxFileSize(v.Size)
        THEN NewGrailError(InvalidArgument, "file size exceeds maximum")
    ELSE nil

\* case fileReaderInput
validateReader(v) ==
    IF v.MIME = MIMEEmpty
        THEN NewGrailError(InvalidArgument, "MIME type must be specified")
    ELSE IF v.Size > 0 /\ exceedsMaxFileSize(v.Size)
        THEN NewGrailError(InvalidArgument, "file size exceeds maximum")
    ELSE nil

\* The checks of one input, in the code's order; the message names the check.
validateInput(v) ==
    IF v.kind = "file" THEN
        IF isEmptyData(v) THEN NewGrailError(InvalidArgument, "file data is empty")
        ELSE IF exceedsMaxFileSize(v.Data.len)
            THEN NewGrailError(InvalidArgument, "file size exceeds maximum")
        ELSE LET mime == IF v.MIME = MIMEEmpty THEN sniffImageMIME(v.Data) ELSE v.MIME IN
            IF v.MIME = MIMEEmpty /\ (mime = MIMEEmpty \/ ~HasPrefix(mime, ImagePrefix))
                THEN NewGrailError(InvalidArgument, "expected image/*")
            ELSE IF mime = MIMEPDF /\ exceedsMaxPDFSize(v)
                THEN NewGrailError(InvalidArgument, "PDF file size exceeds maximum")
            ELSE nil
    ELSE IF v.kind = "text" THEN nil
    ELSE validateReader(v)

\* Faulty variant: only the first input is looked at.
validateInputsFirstOnly(inputs) ==
    IF inputs = <<>> THEN nil ELSE validateInput(Head(inputs))

\* The loop over req.Inputs: the error of the first input that fails.
RECURSIVE validateInputs(_)
validateInputs(inputs) ==
    IF inputs = <<>> THEN nil
    ELSE IF validateInput(Head(inputs)) # nil THEN validateInput(Head(inputs))
    ELSE validateInputs(Tail(inputs))

\* Faulty variant: the check of empty inputs is missing.
validateRequestNoEmptyCheck(r) ==
    IF r.Output = NilOutput
        THEN NewGrailError(InvalidArgument, "output must be specified")
    ELSE validateInputs(r.Inputs)

\* Faulty variant: the check of the output is missing.
validateRequestNoOutputCheck(r) ==
    IF Len(r.Inputs) = 0 THEN NewGrailError(InvalidArgument, "inputs must not be empty")
    ELSE validateInputs(r.Inputs)

validateRequest(r) ==
    IF Len(r.Inputs) = 0 THEN NewGrailError(InvalidArgument, "inputs must not be empty")
    ELSE IF r.Output = NilOutput
        THEN NewGrailError(InvalidArgument, "output must be specified")
    ELSE validateInputs(r.Inputs)

\* Faulty variant: only a text output asks for a text model.
roleFromOutputTextOnly(output) ==
    IF IsTextOutput(output) THEN ModelRoleText ELSE ModelRoleImage

roleFromOutput(output) ==
    IF IsTextOutput(output) THEN ModelRoleText
    ELSE IF IsImageOutput(output) THEN ModelRoleImage
    ELSE ModelRoleText

-----------------------------------------------------------------------------
(* Providers *)

\* A pointer-typed option that was not given.
Unset == "unset"

\* <pkg>.TextOptions{...} and <pkg>.ImageOptions{...}: the provider package's types.
TextOptions(pkg, model, systemPrompt, temperature, topP, maxTokens) ==
    [pkg |-> pkg, type |-> "TextOptions", Model |-> model, SystemPrompt |-> systemPrompt,
     Temperature |-> temperature, TopP |-> topP, MaxTokens |-> maxTokens]

ImageOptions(pkg, model, systemPrompt) ==
    [pkg |-> pkg, type |-> "ImageOptions", Model |-> model, SystemPrompt |-> systemPrompt]

\* var textOpts TextOptions / var imageOpts ImageOptions
ZeroTextOptions(pkg) == TextOptions(pkg, "", "", Unset, Unset, Unset)
ZeroImageOptions(pkg) == ImageOptions(pkg, "", "")

Model(name, role, tier) == [Name |-> name, Role |-> role, Tier |-> tier]

Gemini3Pro == Model("gemini-3-pro-preview", ModelRoleText, ModelTierBest)
Gemini3ProImage == Model("gemini-3-pro-image-preview", ModelRoleImage, ModelTierBest)
Gemini3Flash == Model("gemini-3-flash-preview", ModelRoleText, ModelTierFast)
Gemini25FlashImage == Model("gemini-2.5-flash-image", ModelRoleImage, ModelTierFast)
Gemini25Flash == Model("gemini-2.5-flash", ModelRoleText, "")
Gemini25FlashLite == Model("gemini-2.5-flash-lite", ModelRoleText, "")

\* gemini.New with its default settings.
GeminiProvider ==
    [kind |-> "gemini", textModel |-> "gemini-3-pro-preview",
     imageModel |-> "gemini-3-pro-image-preview",
     bestTextModel |-> Gemini3Pro, fastTextModel |-> Gemini3Flash,
     bestImageModel |-> Gemini3ProImage, fastImageModel |-> Gemini25FlashImage]

\* openai.New with its default settings.
OpenAIProvider ==
    [kind |-> "openai", textModel |-> "gpt-5.2", imageModel |-> "gpt-image-1.5"]

\* Any other ProviderExecutor, which records what it is handed; it may or may
\* not implement ModelResolver.
CaptureProvider(resolver) == [kind |-> "capture", resolver |-> resolver]

\* A Provider that has Name() but no DoGenerate.
BareProvider == [kind |-> "bare"]

NilProvider == [kind |-> "nil"]

\* p.(ProviderExecutor)
IsProviderExecutor(p) == p.kind \in {"gemini", "openai", "capture", "catalog"}

\* p.(ModelResolver)
IsModelResolver(p) == p.kind = "gemini" \/ (p.kind = "capture" /\ p.resolver)

\* downloadMaxBytes: 100 * 1024 * 1024 unless WithDownloadLimits sets it
DefaultDownloadMaxBytes == 104857600

NewClient(p) ==
    [provider |-> IF IsProviderExecutor(p) THEN p ELSE NilProvider,
     downloadMaxBytes |-> DefaultDownloadMaxBytes]

\* NewClient(p, WithDownloadLimits(maxBytes, timeout))
WithDownloadLimits(c, maxBytes) == [c EXCEPT !.downloadMaxBytes = maxBytes]

geminiResolveModel(p, role, tier) ==
    IF role = ModelRoleText /\ tier = ModelTierBest
        THEN [name |-> p.bestTextModel.Name, err |-> nil]
    ELSE IF role = ModelRoleText /\ tier = ModelTierFast
        THEN [name |-> p.fastTextModel.Name, err |-> nil]
    ELSE IF role = ModelRoleImage /\ tier = ModelTierBest
        THEN [name |-> p.bestImageModel.Name, err |-> nil]
    ELSE IF role = ModelRoleImage /\ tier = ModelTierFast
        THEN [name |-> p.fastImageModel.Name, err |-> nil]
    ELSE [name |-> "", err |-> PlainError("gemini: no model with tier")]

\* The ModelResolver of the bound provider. The recording provider knows the
\* best tier of each role and fails for every other tier.
ResolveModel(p, role, tier) ==
    IF p.kind = "gemini" THEN geminiResolveModel(p, role, tier)
    ELSE IF tier = ModelTierBest THEN [name |-> "resolved-best", err |-> nil]
    ELSE [name |-> "", err |-> PlainError("no model with tier")]

\* strings.Contains on the text of a vendor error, a sequence of words.
Contains(text, word) == \E i \in 1..Len(text) : text[i] = word

isRetryableError(text) ==
    \/ Contains(text, "rate_limit")
    \/ Contains(text, "timeout")
    \/ Contains(text, "temporary")
    \/ Contains(text, "503")
    \/ Contains(text, "429")

\* json.Unmarshal(text) succeeds
IsJSON(text) == text \in {"{}", "[]", "null"}

\* What one vendor API call (or the recording provider) answers.
VendorOK(text, images) == [ok |-> TRUE, text |-> text, images |-> images, error |-> <<>>]
VendorError(text) == [ok |-> FALSE, text |-> "", images |-> <<>>, error |-> text]

-----------------------------------------------------------------------------
(* Gemini adapter *)

\* The last option of the given type in req.ProviderOptions, or the zero value.
RECURSIVE lastOption(_, _, _, _)
lastOption(opts, pkg, type, zero) ==
    IF opts = <<>> THEN zero
    ELSE IF opts[Len(opts)].pkg = pkg /\ opts[Len(opts)].type = type THEN opts[Len(opts)]
    ELSE lastOption(SubSeq(opts, 1, Len(opts) - 1), pkg, type, zero)

\* The model the loop over req.ProviderOptions leaves: the Model of the last
\* option of the given type that names one, else the default.
RECURSIVE optionModel(_, _, _, _)
optionModel(opts, pkg, type, default) ==
    IF opts = <<>> THEN default
    ELSE IF /\ opts[Len(opts)].pkg = pkg
            /\ opts[Len(opts)].type = type
            /\ opts[Len(opts)].Model # ""
        THEN opts[Len(opts)].Model
    ELSE optionModel(SubSeq(opts, 1, Len(opts) - 1), pkg, type, default)

\* One genai.Part of an input, or the error that stops the conversion.
geminiPart(input) ==
    IF input.kind = "text" THEN [part |-> [kind |-> "text", Text |-> input.Text], err |-> nil]
    ELSE IF input.kind = "file" THEN
        IF input.Data.len = 0 THEN [part |-> <<>>, err |-> PlainError("file data is empty")]
        ELSE LET sniffed == SniffImageMIME(input.Data)
                 mime == IF input.MIME # MIMEEmpty THEN input.MIME
                         ELSE IF sniffed = MIMEEmpty THEN MIMEOctet ELSE sniffed
             IN [part |-> [kind |-> "bytes", Data |-> input.Data, MIME |-> mime],
                 err |-> nil]
    ELSE [part |-> <<>>, err |-> PlainError("FileReaderInput not yet supported")]

RECURSIVE toGenAIParts(_)
toGenAIParts(inputs) ==
    IF inputs = <<>> THEN [parts |-> <<>>, err |-> nil]
    ELSE LET first == geminiPart(Head(inputs))
             rest == toGenAIParts(Tail(inputs))
         IN IF first.err # nil THEN [parts |-> <<>>, err |-> first.err]
            ELSE IF rest.err # nil THEN [parts |-> <<>>, err |-> rest.err]
            ELSE [parts |-> <<first.part>> \o rest.parts, err |-> nil]

applyTextOptions(opts) ==
    [SystemInstruction |-> opts.SystemPrompt,
     Temperature |-> opts.Temperature,
     TopP |-> opts.TopP,
     MaxOutputTokens |-> IF opts.MaxTokens = Unset THEN 0 ELSE opts.MaxTokens]

applyImageOptions(opts) ==
    [SystemInstruction |-> opts.SystemPrompt,
     Temperature |-> Unset, TopP |-> Unset, MaxOutputTokens |-> 0]

geminiTextModel(p, r) ==
    IF r.Model # "" THEN r.Model
    ELSE optionModel(r.ProviderOptions, "gemini", "TextOptions", p.textModel)

geminiImageModel(p, r) ==
    IF r.Model # "" THEN r.Model
    ELSE optionModel(r.ProviderOptions, "gemini", "ImageOptions", p.imageModel)

geminiTextOpts(r) ==
    IF r.Model # "" THEN ZeroTextOptions("gemini")
    ELSE lastOption(r.ProviderOptions, "gemini", "TextOptions", ZeroTextOptions("gemini"))

geminiImageOpts(r) ==
    IF r.Model # "" THEN ZeroImageOptions("gemini")
    ELSE lastOption(r.ProviderOptions, "gemini", "ImageOptions", ZeroImageOptions("gemini"))

VendorCall(model, parts, config) == [model |-> model, parts |-> parts, config |-> config]

geminiFailure(what, out) ==
    WithRetryable(
        WithProviderName(
            WithCause(NewGrailError(Internal, what), SDKError(out.error)), "gemini"),
        isRetryableError(out.error))

geminiResponse(outputs, models) ==
    [Outputs |-> outputs,
     Provider |-> [Name |-> "gemini", Route |-> "generate_content", Models |-> models]]

RECURSIVE imageParts(_)
imageParts(images) ==
    IF images = <<>> THEN <<>>
    ELSE <<NewImageOutputPart(Head(images).Data, Head(images).MIME)>>
         \o imageParts(Tail(images))

geminiGenerateText(p, r, parts, out) ==
    LET modelName == geminiTextModel(p, r)
        call == VendorCall(modelName, parts, applyTextOptions(geminiTextOpts(r)))
    IN IF ~out.ok
       THEN [resp |-> EmptyResponse, err |-> geminiFailure("generate text failed", out),
             vendor |-> <<call>>]
       ELSE [resp |-> geminiResponse(<<NewTextOutputPart(out.text)>>,
                                     <<[Role |-> "language", Name |-> modelName]>>),
             err |-> nil, vendor |-> <<call>>]

geminiGenerateImage(p, r, parts, out) ==
    LET modelName == geminiImageModel(p, r)
        call == VendorCall(modelName, parts, applyImageOptions(geminiImageOpts(r)))
    IN IF ~out.ok
       THEN [resp |-> EmptyResponse, err |-> geminiFailure("generate image failed", out),
             vendor |-> <<call>>]
       ELSE [resp |-> geminiResponse(imageParts(out.images),
                                     <<[Role |-> "language", Name |-> modelName],
                                       [Role |-> "image_generation", Name |-> modelName]>>),
             err |-> nil, vendor |-> <<call>>]

geminiGenerateJSON(p, r, parts, out) ==
    LET modelName == geminiTextModel(p, r)
        call == VendorCall(modelName, parts, applyTextOptions(geminiTextOpts(r)))
    IN IF ~out.ok
       THEN [resp |-> EmptyResponse, err |-> geminiFailure("generate JSON failed", out),
             vendor |-> <<call>>]
       ELSE IF r.Output.Strict /\ ~IsJSON(out.text)
       THEN [resp |-> EmptyResponse,
             err |-> WithProviderName(NewGrailError(OutputInvalid, "invalid JSON output"),
                                      "gemini"),
             vendor |-> <<call>>]
       ELSE [resp |-> geminiResponse(<<NewJSONOutputPart(out.text)>>,
                                     <<[Role |-> "language", Name |-> modelName]>>),
             err |-> nil, vendor |-> <<call>>]

geminiDoGenerate(p, r, out) ==
    LET conv == toGenAIParts(r.Inputs) IN
    IF conv.err # nil
    THEN [resp |-> EmptyResponse,
          err |-> WithProviderName(
                      WithCause(NewGrailError(InvalidArgument, "failed to convert inputs"),
                                conv.err), "gemini"),
          vendor |-> <<>>]
    ELSE IF IsTextOutput(r.Output) THEN geminiGenerateText(p, r, conv.parts, out)
    ELSE IF IsImageOutput(r.Output) THEN geminiGenerateImage(p, r, conv.parts, out)
    ELSE IF IsJSONOutput(r.Output) THEN geminiGenerateJSON(p, r, conv.parts, out)
    ELSE [resp |-> EmptyResponse,
          err |-> WithProviderName(NewGrailError(Unsupported, "unsupported output type"),
                                   "gemini"),
          vendor |-> <<>>]

-----------------------------------------------------------------------------
(* OpenAI adapter *)

\* "data:<mime>;base64,<base64 of data>"
dataURL(mime, data) == [scheme |-> "data", MIME |-> mime, base64 |-> data]

\* One content item of an input, or the error that stops the conversion.
openaiContent(input) ==
    IF input.kind = "text"
    THEN [part |-> [kind |-> "input_text", Text |-> input.Text], err |-> nil]
    ELSE IF input.kind = "file" THEN
        IF input.Data.len = 0 THEN [part |-> <<>>, err |-> PlainError("file data is empty")]
        ELSE LET mime == IF input.MIME = MIMEEmpty THEN SniffImageMIME(input.Data)
                         ELSE input.MIME
             IN IF HasPrefix(mime, ImagePrefix)
                THEN [part |-> [kind |-> "input_image",
                                ImageURL |-> dataURL(mime, input.Data)],
                      err |-> nil]
                ELSE IF mime = MIMEPDF
                THEN IF input.Data.len < 4 \/ Slice(input.Data, 0, 4) # PDFMagic
                     THEN [part |-> <<>>, err |-> PlainError("invalid PDF data")]
                     ELSE [part |-> [kind |-> "input_file",
                                     FileData |-> dataURL(mime, input.Data),
                                     Filename |-> IF input.Name = "" THEN "document.pdf"
                                                  ELSE input.Name],
                           err |-> nil]
                ELSE [part |-> [kind |-> "input_file",
                                FileData |-> dataURL(IF mime = MIMEEmpty THEN MIMEOctet
                                                     ELSE mime, input.Data),
                                Filename |-> IF input.Name = "" THEN "file" ELSE input.Name],
                      err |-> nil]
    ELSE [part |-> <<>>, err |-> PlainError("FileReaderInput not yet supported")]

\* Faulty variant: the content items are emitted last input first.
RECURSIVE toResponseInputReversed(_)
toResponseInputReversed(inputs) ==
    IF inputs = <<>> THEN [parts |-> <<>>, err |-> nil]
    ELSE LET first == openaiContent(Head(inputs))
             rest == toResponseInputReversed(Tail(inputs))
         IN IF first.err # nil THEN [parts |-> <<>>, err |-> first.err]
            ELSE IF rest.err # nil THEN [parts |-> <<>>, err |-> rest.err]
            ELSE [parts |-> rest.parts \o <<first.part>>, err |-> nil]

\* The content list of the single user message, or the conversion error.
RECURSIVE toResponseInput(_)
toResponseInput(inputs) ==
    IF inputs = <<>> THEN [parts |-> <<>>, err |-> nil]
    ELSE LET first == openaiContent(Head(inputs))
             rest == toResponseInput(Tail(inputs))
         IN IF first.err # nil THEN [parts |-> <<>>, err |-> first.err]
            ELSE IF rest.err # nil THEN [parts |-> <<>>, err |-> rest.err]
            ELSE [parts |-> <<first.part>> \o rest.parts, err |-> nil]

openaiTextModel(p, r) == optionModel(r.ProviderOptions, "openai", "TextOptions", p.textModel)

openaiImageLanguageModel(p, r) ==
    optionModel(r.ProviderOptions, "openai", "ImageOptions", p.textModel)

openaiTextOpts(r) ==
    lastOption(r.ProviderOptions, "openai", "TextOptions", ZeroTextOptions("openai"))

openaiImageOpts(r) ==
    lastOption(r.ProviderOptions, "openai", "ImageOptions", ZeroImageOptions("openai"))

openaiFailure(what, out) ==
    WithRetryable(
        WithProviderName(
            WithCause(NewGrailError(Internal, what), SDKError(out.error)), "openai"),
        isRetryableError(out.error))

openaiResponse(outputs, models) ==
    [Outputs |-> outputs,
     Provider |-> [Name |-> "openai", Route |-> "responses", Models |-> models]]

openaiGenerateText(p, r, item, out) ==
    LET model == openaiTextModel(p, r)
        call == VendorCall(model, item, applyTextOptions(openaiTextOpts(r)))
    IN IF ~out.ok
       THEN [resp |-> EmptyResponse, err |-> openaiFailure("openai generate text failed", out),
             vendor |-> <<call>>]
       ELSE [resp |-> openaiResponse(<<NewTextOutputPart(out.text)>>,
                                     <<[Role |-> "language", Name |-> model]>>),
             err |-> nil, vendor |-> <<call>>]

openaiGenerateImage(p, r, item, out) ==
    LET model == openaiImageLanguageModel(p, r)
        call == VendorCall(model, item, applyImageOptions(openaiImageOpts(r)))
    IN IF ~out.ok
       THEN [resp |-> EmptyResponse,
             err |-> openaiFailure("openai generate image failed", out),
             vendor |-> <<call>>]
       ELSE [resp |-> openaiResponse(imageParts(out.images),
                                     <<[Role |-> "language", Name |-> model],
                                       [Role |-> "image_generation", Name |-> p.imageModel]>>),
             err |-> nil, vendor |-> <<call>>]

openaiGenerateJSON(p, r, item, out) ==
    LET model == openaiTextModel(p, r)
        call == VendorCall(model, item, applyTextOptions(openaiTextOpts(r)))
    IN IF ~out.ok
       THEN [resp |-> EmptyResponse, err |-> openaiFailure("openai generate JSON failed", out),
             vendor |-> <<call>>]
       ELSE IF r.Output.Strict /\ ~IsJSON(out.text)
       THEN [resp |-> EmptyResponse,
             err |-> WithProviderName(NewGrailError(OutputInvalid, "invalid JSON output"),
                                      "openai"),
             vendor |-> <<call>>]
       ELSE [resp |-> openaiResponse(<<NewJSONOutputPart(out.text)>>,
                                     <<[Role |-> "language", Name |-> model]>>),
             err |-> nil, vendor |-> <<call>>]

openaiDoGenerate(p, r, out) ==
    LET conv == toResponseInput(r.Inputs) IN
    IF conv.err # nil
    THEN [resp |-> EmptyResponse,
          err |-> WithProviderName(
                      WithCause(NewGrailError(InvalidArgument, "failed to convert inputs"),
                                conv.err), "openai"),
          vendor |-> <<>>]
    ELSE IF IsTextOutput(r.Output) THEN openaiGenerateText(p, r, conv.parts, out)
    ELSE IF IsImageOutput(r.Output) THEN openaiGenerateImage(p, r, conv.parts, out)
    ELSE IF IsJSONOutput(r.Output) THEN openaiGenerateJSON(p, r, conv.parts, out)
    ELSE [resp |-> EmptyResponse,
          err |-> WithProviderName(NewGrailError(Unsupported, "unsupported output type"),
                                   "openai"),
          vendor |-> <<>>]

\* A ProviderExecutor that records the request and answers as its test says.
captureDoGenerate(p, r, out) ==
    IF out.ok
    THEN [resp |-> [Outputs |-> <<NewTextOutputPart(out.text)>> \o imageParts(out.images),
                    Provider |-> [Name |-> "mock", Route |-> "", Models |-> <<>>]],
          err |-> nil, vendor |-> <<>>]
    ELSE [resp |-> EmptyResponse,
          err |-> IF isRetryableError(out.error)
                  THEN WithRetryable(NewGrailError(RateLimited, "provider error"), TRUE)
                  ELSE PlainError("provider error"),
          vendor |-> <<>>]

\* c.provider.DoGenerate(ctx, req)
DoGenerate(p, r, out) ==
    IF p.kind = "gemini" THEN geminiDoGenerate(p, r, out)
    ELSE IF p.kind = "openai" THEN openaiDoGenerate(p, r, out)
    ELSE captureDoGenerate(p, r, out)

-----------------------------------------------------------------------------
(* Client.Generate *)

\* Faulty variant: the tier is resolved although the request names a model.
wantsTierResolutionIgnoringModel(r) == r.Tier # ""

\* req.Model == "" && req.Tier != ""
wantsTierResolution(r) == r.Model = "" /\ r.Tier # ""

returned(resp, e, sent, asked, calls, answers) ==
    [resp |-> resp, err |-> e, dispatched |-> sent, resolved |-> asked, vendor |-> calls,
     returns |-> answers]

\* Faulty variant: the error of the resolver is replaced, not wrapped.
resolveFailureDroppingCause(role, tier, e) ==
    NewGrailError(InvalidArgument, "failed to resolve model")

\* NewGrailError(InvalidArgument, "failed to resolve model for role=.. tier=..: ..")
\*     .WithCause(err)
resolveFailure(role, tier, e) ==
    WithCause(NewGrailError(InvalidArgument, "failed to resolve model"), e)

\* Faulty variant: the provider's error is wrapped in an Internal error.
providerResultWrapped(d) ==
    [resp |-> d.resp,
     err |-> IF d.err = nil THEN nil
             ELSE WithCause(NewGrailError(Internal, "generate failed"), d.err)]

\* return c.provider.DoGenerate(ctx, req)
providerResult(d) == [resp |-> d.resp, err |-> d.err]

\* Faulty variant: validation writes the sniffed MIME back into the inputs.
RECURSIVE validatedInputsSniffed(_)
validatedInputsSniffed(inputs) ==
    IF inputs = <<>> THEN <<>>
    ELSE <<IF Head(inputs).kind = "file" /\ Head(inputs).MIME = MIMEEmpty
           THEN [Head(inputs) EXCEPT !.MIME = sniffImageMIME(Head(inputs).Data)]
           ELSE Head(inputs)>> \o validatedInputsSniffed(Tail(inputs))

\* req.Inputs as validateRequest leaves it: the loop's v is a copy of the
\* input, the sniffed MIME lives in the local mime, and nothing is written back.
validatedInputs(inputs) == inputs

\* What Generate returns for r, with the calls it makes on the provider on the
\* way; out is the answer of the vendor (or of the recording provider).
generate(c, r, out) ==
    LET rv == [r EXCEPT !.Inputs = validatedInputs(r.Inputs)] IN
    IF validateRequest(r) # nil
    THEN returned(EmptyResponse, validateRequest(r), <<>>, <<>>, <<>>, <<>>)
    ELSE IF c.provider = NilProvider
    THEN returned(EmptyResponse,
                  NewGrailError(Internal, "provider executor not available"),
                  <<>>, <<>>, <<>>, <<>>)
    ELSE IF wantsTierResolution(rv) /\ IsModelResolver(c.provider)
    THEN LET role == roleFromOutput(rv.Output)
             rm == ResolveModel(c.provider, role, rv.Tier)
             r2 == [rv EXCEPT !.Model = rm.name]
             d == DoGenerate(c.provider, r2, out)
         IN IF rm.err # nil
            THEN returned(EmptyResponse, resolveFailure(role, rv.Tier, rm.err),
                          <<>>, <<<<role, rv.Tier>>>>, <<>>, <<>>)
            ELSE returned(providerResult(d).resp, providerResult(d).err,
                          <<r2>>, <<<<role, rv.Tier>>>>, d.vendor,
                          <<[resp |-> d.resp, err |-> d.err]>>)
    ELSE LET d == DoGenerate(c.provider, rv, out)
         IN returned(providerResult(d).resp, providerResult(d).err,
                     <<rv>>, <<>>, d.vendor, <<[resp |-> d.resp, err |-> d.err]>>)

-----------------------------------------------------------------------------
(* The caller: builds a Request, passes it to Generate, starts over *)

AppendInput(input) ==
    /\ phase = "build"
    /\ Len(req.Inputs) < MaxInputs
    /\ req' = [req EXCEPT !.Inputs = Append(@, input)]
    /\ UNCHANGED <<extVars, client, phase, result, dispatched, resolved, vendor, returns,
                   errVars, auxVars>>

SetOutput(output) ==
    /\ phase = "build"
    /\ req.Output # output
    /\ req' = [req EXCEPT !.Output = output]
    /\ UNCHANGED <<extVars, client, phase, result, dispatched, resolved, vendor, returns,
                   errVars, auxVars>>

SetModel(name) ==
    /\ phase = "build"
    /\ req.Model # name
    /\ req' = [req EXCEPT !.Model = name]
    /\ UNCHANGED <<extVars, client, phase, result, dispatched, resolved, vendor, returns,
                   errVars, auxVars>>

SetTier(tier) ==
    /\ phase = "build"
    /\ req.Tier # tier
    /\ req' = [req EXCEPT !.Tier = tier]
    /\ UNCHANGED <<extVars, client, phase, result, dispatched, resolved, vendor, returns,
                   errVars, auxVars>>

AddProviderOption(opt) ==
    /\ phase = "build"
    /\ Len(req.ProviderOptions) < MaxOptions
    /\ req' = [req EXCEPT !.ProviderOptions = Append(@, opt)]
    /\ UNCHANGED <<extVars, client, phase, result, dispatched, resolved, vendor, returns,
                   errVars, auxVars>>

\* client.Generate(ctx, req), the provider's answer being out.
Generate(out) ==
    /\ phase = "build"
    /\ LET g == generate(client, req, out) IN
        /\ result' = [resp |-> g.resp, err |-> g.err]
        /\ dispatched' = g.dispatched
        /\ resolved' = g.resolved
        /\ vendor' = g.vendor
        /\ returns' = g.returns
    /\ phase' = "done"
    /\ UNCHANGED <<extVars, client, req, errVars, auxVars>>

NewRequest ==
    /\ phase = "done"
    /\ phase' = "build"
    /\ req' = EmptyRequest
    /\ result' = [resp |-> EmptyResponse, err |-> nil]
    /\ dispatched' = <<>>
    /\ resolved' = <<>>
    /\ vendor' = <<>>
    /\ returns' = <<>>
    /\ UNCHANGED <<extVars, client, errVars, auxVars>>

InitRequest ==
    /\ req = EmptyRequest
    /\ phase = "build"
    /\ result = [resp |-> EmptyResponse, err |-> nil]
    /\ dispatched = <<>>
    /\ resolved = <<>>
    /\ vendor = <<>>
    /\ returns = <<>>

InitNoError ==
    /\ err = nil
    /\ flagCalls = <<>>
    /\ retryResult = "none"

NoCall == [call |-> "none"]

InitNoAux ==
    /\ response = EmptyResponse
    /\ helperResult = NoCall
    /\ lookup = NoCall
    /\ fetched = NoCall

InitNoExt ==
    /\ sniffCall = NoCall
    /\ textResult = NoCall
    /\ built = NoCall
    /\ fileFromPath = NoCall
    /\ shared = NoCall
    /\ callers = <<>>
    /\ jsonOpts = <<>>

-----------------------------------------------------------------------------
(* Payloads and inputs the callers of the model draw from *)

PNGData == Bytes(<<137, 80, 78, 71, 13, 10, 26, 10>>)
\* "not an image"
NotAnImage == Bytes(<<110, 111, 116, 32, 97, 110, 32, 105, 109, 97, 103, 101>>)
\* "%PDF-1.4"
PDFData == Bytes(<<37, 80, 68, 70, 45, 49, 46, 52>>)
\* "fake pdf content"
FakePDFData == BytesOfLen(16, <<102, 97, 107, 101, 32, 112, 100, 102, 32, 99, 111, 110>>)
PDFHead == <<37, 80, 68, 70, 45, 49, 46, 52, 10, 37, 37, 10>>

TierBogus == "turbo"

AnImage == [Data |-> PNGData, MIME |-> MIMEPNG]

ProviderAnswers ==
    {VendorOK("ok", <<>>), VendorError(<<"boom">>), VendorError(<<"rate_limit">>)}

\* "\xFF\xD8\xFF": a JPEG signature in fewer than four bytes
ShortJPEG == Bytes(<<255, 216, 255>>)

GeminiY == TextOptions("gemini", "Y", "be brief", Unset, Unset, Unset)
GeminiImageY == ImageOptions("gemini", "Y", "be brief")
OpenAIY == TextOptions("openai", "Y", "be brief", Unset, Unset, Unset)
OpenAIImageY == ImageOptions("openai", "Y", "be brief")

\* Specification Spec: Generate on a client whose provider records what it is
\* handed, over inputs at and around every limit of the validator.
SpecInputs ==
    {InputText("a"),
     InputImage(PNGData, ""), InputImage(NotAnImage, ""), InputImage(ShortJPEG, ""),
     InputPDF(PDFData, ""),
     InputPDF(BytesOfLen(MaxPDFSize, PDFHead), ""),
     InputPDF(BytesOfLen(MaxPDFSize + 1, PDFHead), ""),
     InputPDF(BytesOfLen(MaxFileSize + 1, PDFHead), ""),
     InputFile(Bytes(<<>>), MIMEText, ""),
     InputFile(BytesOfLen(MaxFileSize, PDFHead), MIMEText, ""),
     InputFile(BytesOfLen(MaxFileSize + 1, PDFHead), MIMEText, ""),
     InputFileReader(-1, MIMEText, ""),
     InputFileReader(0, MIMEText, ""),
     InputFileReader(0, MIMEEmpty, ""),
     InputFileReader(MaxFileSize, MIMEText, ""),
     InputFileReader(MaxFileSize + 1, MIMEText, "")}

SpecOutputs == {NilOutput, OutputText, OutputImage(1), OutputJSON(TRUE)}

Init ==
    /\ client \in {NewClient(CaptureProvider(TRUE)), NewClient(CaptureProvider(FALSE)),
                   NewClient(BareProvider)}
    /\ InitRequest
    /\ InitNoError
    /\ InitNoAux
    /\ InitNoExt

Next ==
    \/ \E input \in SpecInputs : AppendInput(input)
    \/ \E output \in SpecOutputs : SetOutput(output)
    \/ \E name \in {"", "X"} : SetModel(name)
    \/ \E tier \in {"", ModelTierBest, TierBogus} : SetTier(tier)
    \/ AddProviderOption(GeminiY)
    \/ \E out \in ProviderAnswers : Generate(out)
    \/ NewRequest

Spec == Init /\ [][Next]_vars

\* Specification SpecAdapter: Generate on a client bound to the Gemini or to
\* the OpenAI adapter, over every way of naming the model.
AdapterInputs ==
    {InputText("a"), InputText("b"),
     InputImage(PNGData, "cat.png"),
     InputPDF(PDFData, ""), InputPDF(FakePDFData, "doc.pdf"),
     InputFile(NotAnImage, MIMEText, ""),
     InputFileReader(-1, MIMEText, "")}

AdapterOptions == {GeminiY, GeminiImageY, OpenAIY, OpenAIImageY}

VendorAnswers ==
    {VendorOK("ok", <<AnImage>>), VendorOK("{}", <<>>), VendorError(<<"boom">>),
     VendorError(<<"status", "503">>), VendorError(<<"status", "500">>)}

InitAdapter ==
    /\ client \in {NewClient(GeminiProvider), NewClient(OpenAIProvider)}
    /\ InitRequest
    /\ InitNoError
    /\ InitNoAux
    /\ InitNoExt

NextAdapter ==
    \/ \E input \in AdapterInputs : AppendInput(input)
    \/ \E output \in SpecOutputs : SetOutput(output)
    \/ \E name \in {"", "X"} : SetModel(name)
    \/ \E tier \in {"", ModelTierBest, TierBogus} : SetTier(tier)
    \/ \E opt \in AdapterOptions : AddProviderOption(opt)
    \/ \E out \in VendorAnswers : Generate(out)
    \/ NewRequest

SpecAdapter == InitAdapter /\ [][NextAdapter]_vars

-----------------------------------------------------------------------------
(* The error model: an error is built, wrapped, and asked IsRetryable *)

NewError(code) ==
    /\ err' = NewGrailError(code, "msg")
    /\ flagCalls' = <<>>
    /\ retryResult' = "none"
    /\ UNCHANGED <<extVars, genVars, auxVars>>

NewPlainError ==
    /\ err' = PlainError("boom")
    /\ flagCalls' = <<>>
    /\ retryResult' = "none"
    /\ UNCHANGED <<extVars, genVars, auxVars>>

\* err.WithRetryable(retryable), on the GrailError just built
SetRetryable(retryable) ==
    /\ err # nil
    /\ err[1].kind = "grail"
    /\ Len(flagCalls) < MaxFlagCalls
    /\ err' = WithRetryable(err, retryable)
    /\ flagCalls' = Append(flagCalls, retryable)
    /\ retryResult' = "none"
    /\ UNCHANGED <<extVars, genVars, auxVars>>

\* err.WithCause(cause)
SetCause(cause) ==
    /\ err # nil
    /\ err[1].kind = "grail"
    /\ 1 + Len(cause) <= MaxChain
    /\ err' = WithCause(err, cause)
    /\ retryResult' = "none"
    /\ UNCHANGED <<extVars, flagCalls, genVars, auxVars>>

\* fmt.Errorf("wrap: %w", err)
WrapError ==
    /\ err # nil
    /\ Len(err) < MaxChain
    /\ err' = Wrap(err)
    /\ retryResult' = "none"
    /\ UNCHANGED <<extVars, flagCalls, genVars, auxVars>>

CallIsRetryable ==
    /\ retryResult' = IF IsRetryable(err) THEN "true" ELSE "false"
    /\ UNCHANGED <<extVars, err, flagCalls, genVars, auxVars>>

Causes ==
    {PlainError("boom"),
     NewGrailError(RateLimited, "cause"),
     WithRetryable(NewGrailError(Internal, "cause"), TRUE)}

InitErr ==
    /\ client = NewClient(BareProvider)
    /\ InitRequest
    /\ InitNoError
    /\ InitNoAux
    /\ InitNoExt

NextErr ==
    \/ \E code \in ErrorCodes : NewError(code)
    \/ NewPlainError
    \/ \E retryable \in BOOLEAN : SetRetryable(retryable)
    \/ \E cause \in Causes : SetCause(cause)
    \/ WrapError
    \/ CallIsRetryable

SpecErr == InitErr /\ [][NextErr]_vars

-----------------------------------------------------------------------------
(* Response helpers: Text, Images, DecodeJSON *)

MaxOutputs == 3

\* The text of the first textOutputPart, and whether there is one.
RECURSIVE responseText(_)
responseText(outputs) ==
    IF outputs = <<>> THEN [text |-> "", ok |-> FALSE]
    ELSE IF Head(outputs).kind = "text" THEN [text |-> Head(outputs).Text, ok |-> TRUE]
    ELSE responseText(Tail(outputs))

Text(r) == responseText(r.Outputs)

\* Faulty variant: an image part is appended before the images found so far.
RECURSIVE imagesOfReversed(_)
imagesOfReversed(outputs) ==
    IF outputs = <<>> THEN <<>>
    ELSE IF Head(outputs).kind = "image"
        THEN imagesOfReversed(Tail(outputs)) \o <<Head(outputs).Data>>
    ELSE imagesOfReversed(Tail(outputs))

\* images = append(images, imgPart.Data), over the parts in order
RECURSIVE imagesOf(_)
imagesOf(outputs) ==
    IF outputs = <<>> THEN <<>>
    ELSE IF Head(outputs).kind = "image"
        THEN <<Head(outputs).Data>> \o imagesOf(Tail(outputs))
    ELSE imagesOf(Tail(outputs))

Images(r) == [images |-> imagesOf(r.Outputs), ok |-> Len(imagesOf(r.Outputs)) > 0]

\* json.Unmarshal(data, dst): dst receives the value, or an error that is no
\* GrailError comes back.
Unmarshal(json) ==
    IF IsJSON(json) THEN [decoded |-> json, err |-> nil]
    ELSE [decoded |-> "", err |-> PlainError("invalid character")]

\* Faulty variant: a response without JSON part decodes to nothing, silently.
RECURSIVE decodeJSONLenient(_)
decodeJSONLenient(outputs) ==
    IF outputs = <<>> THEN [decoded |-> "", err |-> nil]
    ELSE IF Head(outputs).kind = "json" THEN Unmarshal(Head(outputs).JSON)
    ELSE decodeJSONLenient(Tail(outputs))

RECURSIVE decodeJSON(_)
decodeJSON(outputs) ==
    IF outputs = <<>>
    THEN [decoded |-> "",
          err |-> NewGrailError(OutputInvalid, "no JSON output part found in response")]
    ELSE IF Head(outputs).kind = "json" THEN Unmarshal(Head(outputs).JSON)
    ELSE decodeJSON(Tail(outputs))

DecodeJSON(r) == decodeJSON(r.Outputs)

\* "img1", "img2"
Img1 == Bytes(<<105, 109, 103, 49>>)
Img2 == Bytes(<<105, 109, 103, 50>>)

ResponseParts ==
    {NewTextOutputPart("hello"), NewTextOutputPart("bye"),
     NewImageOutputPart(Img1, MIMEPNG), NewImageOutputPart(Img2, MIMEJPEG),
     NewJSONOutputPart("{}"), NewJSONOutputPart("{")}

\* A provider appends a part to the Outputs of the Response it builds.
AppendOutput(part) ==
    /\ Len(response.Outputs) < MaxOutputs
    /\ response' = [response EXCEPT !.Outputs = Append(@, part)]
    /\ helperResult' = NoCall
    /\ UNCHANGED <<extVars, genVars, errVars, lookup, fetched>>

NewResponse ==
    /\ response # EmptyResponse
    /\ response' = EmptyResponse
    /\ helperResult' = NoCall
    /\ UNCHANGED <<extVars, genVars, errVars, lookup, fetched>>

CallText ==
    /\ helperResult' = [call |-> "Text", text |-> Text(response).text,
                        ok |-> Text(response).ok]
    /\ UNCHANGED <<extVars, genVars, errVars, response, lookup, fetched>>

CallImages ==
    /\ helperResult' = [call |-> "Images", images |-> Images(response).images,
                        ok |-> Images(response).ok]
    /\ UNCHANGED <<extVars, genVars, errVars, response, lookup, fetched>>

CallDecodeJSON ==
    /\ helperResult' = [call |-> "DecodeJSON", decoded |-> DecodeJSON(response).decoded,
                        err |-> DecodeJSON(response).err]
    /\ UNCHANGED <<extVars, genVars, errVars, response, lookup, fetched>>

InitResponse ==
    /\ client = NewClient(BareProvider)
    /\ InitRequest
    /\ InitNoError
    /\ InitNoAux
    /\ InitNoExt

NextResponse ==
    \/ \E part \in ResponseParts : AppendOutput(part)
    \/ NewResponse
    \/ CallText
    \/ CallImages
    \/ CallDecodeJSON

SpecResponse == InitResponse /\ [][NextResponse]_vars

-----------------------------------------------------------------------------
(* Model catalog: ListModels, GetModel *)

MaxCatalog == 2

ModelInfo(name, role, tier) == [Name |-> name, Role |-> role, Tier |-> tier]

\* ModelInfo{}
ZeroModelInfo == ModelInfo("", "", "")

\* A ProviderExecutor with a catalog: it implements ModelLister or not, and
\* its ListModels returns the catalog together with an error or nil.
CatalogProvider(lister, models, listErr) ==
    [kind |-> "catalog", lister |-> lister, models |-> models, listErr |-> listErr]

\* Provider.AllModels() of the Gemini provider: the four slots, then the
\* models of no tier.
geminiAllModels(p) ==
    <<p.bestTextModel, p.fastTextModel, p.bestImageModel, p.fastImageModel,
      Gemini25Flash, Gemini25FlashLite>>

\* c.provider.(ModelLister)
IsModelLister(p) == (p.kind = "catalog" /\ p.lister) \/ p.kind = "gemini"

ListModels(c) ==
    IF c.provider = NilProvider
    THEN [models |-> <<>>,
          err |-> NewGrailError(Internal, "provider executor not available")]
    ELSE IF ~IsModelLister(c.provider)
    THEN [models |-> <<>>,
          err |-> NewGrailError(Unsupported, "provider does not support model listing")]
    ELSE IF c.provider.kind = "gemini"
    THEN [models |-> geminiAllModels(c.provider), err |-> nil]
    ELSE [models |-> c.provider.models, err |-> c.provider.listErr]

\* The loop of GetModel over models.
RECURSIVE firstMatch(_, _, _)
firstMatch(models, role, tier) ==
    IF models = <<>>
    THEN [model |-> ZeroModelInfo, err |-> NewGrailError(Unsupported, "no model found")]
    ELSE IF Head(models).Role = role /\ Head(models).Tier = tier
    THEN [model |-> Head(models), err |-> nil]
    ELSE firstMatch(Tail(models), role, tier)

\* Faulty variant: the scan keeps the last entry that matches.
GetModelLastMatch(c, role, tier) ==
    LET listed == ListModels(c)
        n == Len(listed.models)
    IN IF listed.err # nil THEN [model |-> ZeroModelInfo, err |-> listed.err]
       ELSE IF n = 0 THEN firstMatch(<<>>, role, tier)
       ELSE IF listed.models[n].Role = role /\ listed.models[n].Tier = tier
       THEN [model |-> listed.models[n], err |-> nil]
       ELSE firstMatch(SubSeq(listed.models, 1, n - 1), role, tier)

GetModel(c, role, tier) ==
    LET listed == ListModels(c) IN
    IF listed.err # nil THEN [model |-> ZeroModelInfo, err |-> listed.err]
    ELSE firstMatch(listed.models, role, tier)

CatalogModels ==
    {ModelInfo("a", ModelRoleText, ModelTierBest),
     ModelInfo("b", ModelRoleText, ModelTierBest),
     ModelInfo("c", ModelRoleImage, ModelTierBest),
     ModelInfo("d", ModelRoleText, ModelTierFast),
     ModelInfo("e", ModelRoleText, "")}

Catalogs ==
    UNION {[1..n -> CatalogModels] : n \in 0..MaxCatalog}

ListErrors ==
    {nil, PlainError("boom"), WithRetryable(NewGrailError(Unavailable, "down"), TRUE)}

CallListModels ==
    /\ lookup' = [call |-> "ListModels", role |-> "", tier |-> "",
                  models |-> ListModels(client).models, model |-> ZeroModelInfo,
                  err |-> ListModels(client).err]
    /\ UNCHANGED <<extVars, genVars, errVars, response, helperResult, fetched>>

CallGetModel(role, tier) ==
    /\ lookup' = [call |-> "GetModel", role |-> role, tier |-> tier,
                  models |-> <<>>, model |-> GetModel(client, role, tier).model,
                  err |-> GetModel(client, role, tier).err]
    /\ UNCHANGED <<extVars, genVars, errVars, response, helperResult, fetched>>

InitCatalog ==
    /\ client \in {NewClient(CatalogProvider(lister, models, listErr)) :
                       lister \in BOOLEAN, models \in Catalogs, listErr \in ListErrors}
                  \cup {NewClient(BareProvider)}
    /\ InitRequest
    /\ InitNoError
    /\ InitNoAux
    /\ InitNoExt

NextCatalog ==
    \/ CallListModels
    \/ \E role \in {ModelRoleText, ModelRoleImage} :
       \E tier \in {ModelTierBest, ModelTierFast, ""} : CallGetModel(role, tier)

SpecCatalog == InitCatalog /\ [][NextCatalog]_vars

-----------------------------------------------------------------------------
(* Remote-fetch helpers: InputFileFromURI, InputImageFromURI, InputPDFFromURI *)

MaxDownloadBytes == 2

\* The longest body a server sends: enough to pass downloadMaxBytes + 1.
MaxBody == MaxDownloadBytes + 2

StatusOK == 200

\* n bytes of a body; the helpers never look at their values.
RECURSIVE Zeros(_)
Zeros(n) == IF n = 0 THEN <<>> ELSE <<0>> \o Zeros(n - 1)

BodyBytes(n) == BytesOfLen(n, Zeros(IF n < HeadLen THEN n ELSE HeadLen))

\* context.DeadlineExceeded, and any other failure of the transport
DeadlineExceeded == PlainError("context deadline exceeded")
ConnectionReset == PlainError("connection reset by peer")

TransportError(what) == IF what = "deadline" THEN DeadlineExceeded ELSE ConnectionReset

\* errors.Is(err, context.DeadlineExceeded)
IsDeadlineExceeded(e) == \E i \in 1..Len(e) : <<e[i]>> = DeadlineExceeded

\* What the HTTP exchange of one call does: whether the URI parses, what
\* httpClient.Do returns ("response", or the failure "deadline" or "reset"),
\* the response's status, ContentLength (-1 when absent) and Content-Type,
\* and its body stream: the bytes it delivers and how it ends ("EOF", or the
\* failure "deadline" or "reset").
Exchange(uriOK, do, status, contentLength, contentType, bodyLen, bodyEnd) ==
    [uriOK |-> uriOK, do |-> do, status |-> status, ContentLength |-> contentLength,
     ContentType |-> contentType, body |-> [len |-> bodyLen, end |-> bodyEnd]]

NoInput == [kind |-> "none"]

fetchResult(input, e, bytesRead) == [input |-> input, err |-> e, bytesRead |-> bytesRead]

\* Faulty variant: the body is read to its end.
readAllUnlimited(body, limit) ==
    [n |-> body.len, err |-> IF body.end = "EOF" THEN nil ELSE TransportError(body.end)]

\* io.ReadAll(io.LimitReader(body, limit)): the bytes read, and the error.
readAllLimited(body, limit) ==
    IF limit <= 0 THEN [n |-> 0, err |-> nil]
    ELSE IF body.len >= limit THEN [n |-> limit, err |-> nil]
    ELSE [n |-> body.len,
          err |-> IF body.end = "EOF" THEN nil ELSE TransportError(body.end)]

\* Faulty variant: a PDF is recognised by the start of the Content-Type.
mimeMismatchByPrefix(expectedMIME, mime) ==
    IF expectedMIME = MIMEEmpty THEN FALSE
    ELSE IF expectedMIME = MIMEPDF THEN ~HasPrefix(mime, MIMEPDF)
    ELSE IF HasPrefix(expectedMIME, ImagePrefix) THEN ~HasPrefix(mime, ImagePrefix)
    ELSE FALSE

\* The check of the Content-Type against the family the helper expects.
mimeMismatch(expectedMIME, mime) ==
    IF expectedMIME = MIMEEmpty THEN FALSE
    ELSE IF expectedMIME = MIMEPDF THEN mime # MIMEPDF
    ELSE IF HasPrefix(expectedMIME, ImagePrefix) THEN ~HasPrefix(mime, ImagePrefix)
    ELSE FALSE

downloadFile(c, x, expectedMIME, name) ==
    IF ~x.uriOK
    THEN fetchResult(NoInput,
                     WithCause(NewGrailError(InvalidArgument, "invalid URI"),
                               PlainError("parse error")), 0)
    ELSE IF x.do # "response"
    THEN IF IsDeadlineExceeded(TransportError(x.do))
         THEN fetchResult(NoInput,
                          WithRetryable(WithCause(NewGrailError(Timeout, "download timeout"),
                                                  TransportError(x.do)), TRUE), 0)
         ELSE fetchResult(NoInput,
                          WithRetryable(WithCause(NewGrailError(Unavailable, "download failed"),
                                                  TransportError(x.do)), TRUE), 0)
    ELSE IF x.status # StatusOK
    THEN fetchResult(NoInput, NewGrailError(Unavailable, "download failed with status"), 0)
    ELSE IF x.ContentLength > c.downloadMaxBytes
    THEN fetchResult(NoInput, NewGrailError(InvalidArgument, "file size exceeds maximum"), 0)
    ELSE LET read == readAllLimited(x.body, c.downloadMaxBytes + 1)
             mime == IF x.ContentType = MIMEEmpty THEN MIMEOctet ELSE x.ContentType
         IN IF read.err # nil
            THEN fetchResult(NoInput,
                             WithCause(NewGrailError(Unavailable, "failed to read response"),
                                       read.err), read.n)
            ELSE IF read.n > c.downloadMaxBytes
            THEN fetchResult(NoInput,
                             NewGrailError(InvalidArgument, "file size exceeds maximum"),
                             read.n)
            ELSE IF mimeMismatch(expectedMIME, mime)
            THEN fetchResult(NoInput,
                             NewGrailError(InvalidArgument, "unexpected content type"),
                             read.n)
            ELSE fetchResult(InputFile(BodyBytes(read.n), mime, name), nil, read.n)

\* A Content-Type header with a parameter after the media type.
MIMEPDFWithParam == MIMEPDF \o <<";", "charset=binary">>

Exchanges ==
    {Exchange(FALSE, "response", StatusOK, -1, MIMEEmpty, 0, "EOF"),
     Exchange(TRUE, "deadline", StatusOK, -1, MIMEEmpty, 0, "EOF"),
     Exchange(TRUE, "reset", StatusOK, -1, MIMEEmpty, 0, "EOF")}
    \cup {Exchange(TRUE, "response", status, contentLength, contentType, bodyLen, bodyEnd) :
            status \in {StatusOK, 404},
            contentLength \in -1..MaxBody,
            contentType \in {MIMEEmpty, MIMEPNG, MIMEPDF, MIMEPDFWithParam, MIMEText},
            bodyLen \in 0..MaxBody,
            bodyEnd \in {"EOF", "deadline", "reset"}}

fetchCall(helper, x, r) ==
    [call |-> helper, exchange |-> x, input |-> r.input, err |-> r.err,
     bytesRead |-> r.bytesRead]

InputFileFromURI(x) ==
    /\ fetched = NoCall
    /\ fetched' = fetchCall("InputFileFromURI", x, downloadFile(client, x, MIMEEmpty, ""))
    /\ UNCHANGED <<extVars, genVars, errVars, response, helperResult, lookup>>

InputImageFromURI(x) ==
    /\ fetched = NoCall
    /\ fetched' = fetchCall("InputImageFromURI", x, downloadFile(client, x, ImagePrefix, ""))
    /\ UNCHANGED <<extVars, genVars, errVars, response, helperResult, lookup>>

InputPDFFromURI(x) ==
    /\ fetched = NoCall
    /\ fetched' = fetchCall("InputPDFFromURI", x, downloadFile(client, x, MIMEPDF, ""))
    /\ UNCHANGED <<extVars, genVars, errVars, response, helperResult, lookup>>

\* The caller takes the result; the client is ready for the next fetch.
TakeFetched ==
    /\ fetched # NoCall
    /\ fetched' = NoCall
    /\ UNCHANGED <<extVars, genVars, errVars, response, helperResult, lookup>>

InitFetch ==
    /\ client \in {WithDownloadLimits(NewClient(CaptureProvider(FALSE)), maxBytes) :
                       maxBytes \in -1..MaxDownloadBytes}
    /\ InitRequest
    /\ InitNoError
    /\ InitNoAux
    /\ InitNoExt

NextFetch ==
    \/ \E x \in Exchanges : InputFileFromURI(x)
    \/ \E x \in Exchanges : InputImageFromURI(x)
    \/ \E x \in Exchanges : InputPDFFromURI(x)
    \/ TakeFetched

SpecFetch == InitFetch /\ [][NextFetch]_vars

-----------------------------------------------------------------------------
(* SniffImageMIME as a function of its own (specification SpecSniff) *)

MaxDataLen == 13

\* The leading bytes of files of several formats, HeadLen bytes each.
SniffHeads ==
    {PNGMagic \o <<13, 10, 26, 10, 0, 0, 0, 13>>,
     <<255, 216, 255, 224, 0, 16, 74, 70, 73, 70, 0, 1>>,
     <<255, 0, 255, 224, 0, 16, 74, 70, 73, 70, 0, 1>>,
     GIF87a \o Zeros(6),
     GIF89a \o Zeros(6),
     <<71, 73, 70, 56, 56, 97>> \o Zeros(6),
     RIFF \o <<36, 0, 0, 0>> \o WEBP,
     RIFF \o <<36, 0, 0, 0>> \o <<87, 65, 86, 69>>,
     PDFMagic \o <<45, 49, 46, 52, 10, 37, 226, 227>>,
     <<66, 77, 70, 0, 0, 0, 0, 0, 0, 0, 54, 0>>,
     <<104, 101, 108, 108, 111, 32, 119, 111, 114, 108, 100, 10>>,
     Zeros(HeadLen)}

\* Every slice of 0..MaxDataLen bytes that starts like one of the files.
SniffInputs ==
    {BytesOfLen(n, SubSeq(h, 1, IF n < HeadLen THEN n ELSE HeadLen)) :
        n \in 0..MaxDataLen, h \in SniffHeads}

CallSniffImageMIME(data) ==
    /\ sniffCall' = [call |-> "SniffImageMIME", data |-> data, mime |-> SniffImageMIME(data)]
    /\ UNCHANGED <<coreVars, jsonOpts, textResult, built, fileFromPath, shared, callers>>

InitSniff ==
    /\ client = NewClient(NilProvider)
    /\ InitRequest
    /\ InitNoError
    /\ InitNoAux
    /\ InitNoExt

NextSniff == \E data \in SniffInputs : CallSniffImageMIME(data)

SpecSniff == InitSniff /\ [][NextSniff]_vars

-----------------------------------------------------------------------------
(* Client.GenerateText of the text/image API (specification SpecText) *)

CodeInvalidInput == "invalid_input"
CodeBadOptions == "bad_options"
CodeUnknown == "unknown"

\* NewError(code, msg): a *grail.Error, the only layer of its chain.
InvalidInput(msg) == <<[kind |-> "Error", Code |-> CodeInvalidInput, Message |-> msg]>>
BadOptions(msg) == <<[kind |-> "Error", Code |-> CodeBadOptions, Message |-> msg]>>

\* IsCode(err, code): the code of the first *Error of the chain, CodeUnknown
\* when it has none, compared with code; false for the nil error.
IsCode(e, code) ==
    IF e = nil THEN FALSE
    ELSE LET typed == {i \in 1..Len(e) : e[i].kind = "Error"}
         IN IF typed = {} THEN code = CodeUnknown
            ELSE \E i \in typed : (\A j \in typed : i <= j) /\ e[i].Code = code

\* Text(s) and Image(data, mime): the TextPart or ImagePart of a request's Input.
TextPart(s) == [kind |-> "text", Text |-> s]
ImagePart(data, mime) == [kind |-> "image", Data |-> data, MIME |-> mime]

TextRequest(input, options) == [Input |-> input, Options |-> options]

\* Faulty variant: the options are not looked at.
validateTextRequestInputOnly(r) ==
    IF Len(r.Input) = 0 THEN InvalidInput("text input must not be empty") ELSE nil

validateTextRequest(r) ==
    IF Len(r.Input) = 0 THEN InvalidInput("text input must not be empty")
    ELSE IF r.Options.Temperature # Unset /\ r.Options.TopP # Unset
    THEN BadOptions("temperature and top_p are mutually exclusive")
    ELSE nil

\* mock.Provider with a TextFn that returns answer.
MockProvider(answer) == [kind |-> "mock", TextFn |-> answer]

\* Client.GenerateText: the result, the error, and the requests the
\* provider's GenerateText received.
generateText(p, r) ==
    LET e == validateTextRequest(r)
    IN IF e # nil THEN [res |-> "", err |-> e, calls |-> <<>>]
       ELSE [res |-> p.TextFn.text, err |-> p.TextFn.err, calls |-> <<r>>]

\* What the TextFn of the mock answers.
TextAnswers ==
    {[text |-> "mock response", err |-> nil],
     [text |-> "", err |-> PlainError("vendor failure")]}

\* *float32 and *int32 options: nil, or a pointer to a value (0 included).
PointerValues == {Unset, "0", "0.5"}

TextRequests ==
    {TextRequest(input, TextOptions("grail", model, "", temperature, topP, maxTokens)) :
        input \in {<<>>, <<TextPart("hi")>>, <<TextPart("hi"), ImagePart(PNGData, MIMEPNG)>>},
        model \in {"", "X"},
        temperature \in PointerValues,
        topP \in PointerValues,
        maxTokens \in {Unset, "16"}}

GenerateText(r, answer) ==
    /\ textResult' = [call |-> "GenerateText", req |-> r] @@ generateText(MockProvider(answer), r)
    /\ UNCHANGED <<coreVars, jsonOpts, sniffCall, built, fileFromPath, shared, callers>>

InitText ==
    /\ client = NewClient(NilProvider)
    /\ InitRequest
    /\ InitNoError
    /\ InitNoAux
    /\ InitNoExt

NextText == \E r \in TextRequests, answer \in TextAnswers : GenerateText(r, answer)

SpecText == InitText /\ [][NextText]_vars

-----------------------------------------------------------------------------
(* One *gemini.Provider shared by concurrent callers (specification SpecShared) *)

MaxCallers == 2

\* The logger gemini.New builds, slog.Default(), a caller's own logger, nil.
StderrLogger == "stderr"
DefaultLogger == "slog.Default"
CustomLogger == "custom"
NilLogger == "nil"

\* The fields of the *Provider gemini.New returns.
SharedProvider == GeminiProvider @@ [log |-> StderrLogger]

\* One access of a call to a field of the shared provider.
Read(field) == [field |-> field, write |-> FALSE, value |-> ""]
Write(field, value) == [field |-> field, write |-> TRUE, value |-> value]

\* Provider.SetLogger(l)
SetLoggerAccesses(l) == IF l # NilLogger THEN <<Write("log", l)>> ELSE <<>>

\* NewClient(p, WithLogger(l)): a Gemini provider is LoggerAware.
NewClientAccesses(l) == SetLoggerAccesses(l)

\* if c.log != nil { c.log.Debug(...) }
LogDebugAccesses == <<Read("log"), Read("log")>>

\* Provider.ResolveModel(role, tier)
ResolveModelAccesses(role, tier) ==
    IF role = ModelRoleText /\ tier = ModelTierBest THEN <<Read("bestTextModel")>>
    ELSE IF role = ModelRoleText /\ tier = ModelTierFast THEN <<Read("fastTextModel")>>
    ELSE IF role = ModelRoleImage /\ tier = ModelTierBest THEN <<Read("bestImageModel")>>
    ELSE IF role = ModelRoleImage /\ tier = ModelTierFast THEN <<Read("fastImageModel")>>
    ELSE <<>>

\* Provider.DoGenerate(req), the vendor answering out.
DoGenerateAccesses(r, out) ==
    (IF IsImageOutput(r.Output) THEN <<Read("imageModel")>> ELSE <<Read("textModel")>>)
    \o LogDebugAccesses
    \o (IF out.error # <<>> \/ (IsJSONOutput(r.Output) /\ r.Output.Strict /\ ~IsJSON(out.text))
        THEN <<>> ELSE LogDebugAccesses)

\* client.Generate(req) on a client bound to the shared provider.
GenerateAccesses(r, out) ==
    IF validateRequest(r) # nil THEN <<>>
    ELSE IF wantsTierResolution(r)
    THEN ResolveModelAccesses(roleFromOutput(r.Output), r.Tier)
         \o (IF geminiResolveModel(SharedProvider, roleFromOutput(r.Output), r.Tier).err # nil
             THEN <<>> ELSE DoGenerateAccesses(r, out))
    ELSE DoGenerateAccesses(r, out)

\* Provider.AllModels(), through client.ListModels and client.GetModel.
ListModelsAccesses ==
    <<Read("bestTextModel"), Read("fastTextModel"), Read("bestImageModel"),
      Read("fastImageModel")>>

Idle == [op |-> "idle", todo |-> <<>>]

SharedRequests ==
    {[EmptyRequest EXCEPT !.Inputs = <<InputText("hi")>>, !.Output = output, !.Tier = tier] :
        output \in {OutputText, OutputImage(1), OutputJSON(TRUE)},
        tier \in {"", ModelTierBest, TierBogus}}

\* Caller i starts a call; its accesses to the provider are still to come.
CallNewClient(i, l) ==
    /\ callers[i] = Idle
    /\ callers' = [callers EXCEPT ![i] = [op |-> "NewClient", todo |-> NewClientAccesses(l)]]
    /\ UNCHANGED <<coreVars, jsonOpts, sniffCall, textResult, built, fileFromPath, shared>>

CallGenerate(i, r, out) ==
    /\ callers[i] = Idle
    /\ callers' = [callers EXCEPT ![i] = [op |-> "Generate", todo |-> GenerateAccesses(r, out)]]
    /\ UNCHANGED <<coreVars, jsonOpts, sniffCall, textResult, built, fileFromPath, shared>>

CallCatalog(i, op) ==
    /\ callers[i] = Idle
    /\ callers' = [callers EXCEPT ![i] = [op |-> op, todo |-> ListModelsAccesses]]
    /\ UNCHANGED <<coreVars, jsonOpts, sniffCall, textResult, built, fileFromPath, shared>>

\* Caller i makes the next access of its call; nothing orders it with the
\* accesses of the other callers.
Access(i) ==
    /\ callers[i] # Idle
    /\ callers[i].todo # <<>>
    /\ LET a == Head(callers[i].todo)
       IN shared' = IF a.write THEN [shared EXCEPT ![a.field] = a.value] ELSE shared
    /\ callers' = [callers EXCEPT ![i].todo = Tail(@)]
    /\ UNCHANGED <<coreVars, jsonOpts, sniffCall, textResult, built, fileFromPath>>

Return(i) ==
    /\ callers[i] # Idle
    /\ callers[i].todo = <<>>
    /\ callers' = [callers EXCEPT ![i] = Idle]
    /\ UNCHANGED <<coreVars, jsonOpts, sniffCall, textResult, built, fileFromPath, shared>>

InitShared ==
    /\ client = NewClient(GeminiProvider)
    /\ InitRequest
    /\ InitNoError
    /\ InitNoAux
    /\ sniffCall = NoCall
    /\ textResult = NoCall
    /\ built = NoCall
    /\ fileFromPath = NoCall
    /\ shared = SharedProvider
    /\ callers = [i \in 1..MaxCallers |-> Idle]
    /\ jsonOpts = <<>>

NextShared ==
    \E i \in 1..MaxCallers :
        \/ \E l \in {DefaultLogger, CustomLogger, NilLogger} : CallNewClient(i, l)
        \/ \E r \in SharedRequests, out \in ProviderAnswers : CallGenerate(i, r, out)
        \/ \E op \in {"ListModels", "GetModel"} : CallCatalog(i, op)
        \/ Access(i)
        \/ Return(i)

SpecShared == InitShared /\ [][NextShared]_vars

-----------------------------------------------------------------------------
(* OutputJSON with its options, and the adapters' JSON mode (specification SpecJSON) *)

MaxJSONOpts == 2

\* WithStrictJSON(strict), and a nil JSONOpt
WithStrictJSON(strict) == [kind |-> "WithStrictJSON", strict |-> strict]
NilJSONOpt == [kind |-> "nil", strict |-> FALSE]

\* joOpt := &jsonOpt{}: the *bool strict is nil
ZeroJSONOpt == [set |-> FALSE, strict |-> FALSE]

\* Faulty variant: an option does not replace a value already set.
RECURSIVE applyJSONOptsKeepFirst(_)
applyJSONOptsKeepFirst(opts) ==
    IF opts = <<>> THEN ZeroJSONOpt
    ELSE LET first == Head(opts)
         IN IF first.kind = "nil" THEN applyJSONOptsKeepFirst(Tail(opts))
            ELSE [set |-> TRUE, strict |-> first.strict]

\* The loop of OutputJSON over its options: each non-nil one sets jo.strict.
RECURSIVE applyJSONOpts(_)
applyJSONOpts(opts) ==
    IF opts = <<>> THEN ZeroJSONOpt
    ELSE LET last == opts[Len(opts)]
             before == applyJSONOpts(SubSeq(opts, 1, Len(opts) - 1))
         IN IF last.kind = "nil" THEN before
            ELSE [set |-> TRUE, strict |-> last.strict]

\* OutputJSON(schema, opts...)
OutputJSONWith(opts) ==
    LET joOpt == applyJSONOpts(opts)
    IN OutputJSON(IF joOpt.set THEN joOpt.strict ELSE TRUE)

RECURSIVE SeqsUpTo(_, _)
SeqsUpTo(S, n) ==
    IF n = 0 THEN {<<>>}
    ELSE SeqsUpTo(S, n - 1) \cup {Append(q, x) : q \in SeqsUpTo(S, n - 1), x \in S}

JSONOptLists == SeqsUpTo({WithStrictJSON(TRUE), WithStrictJSON(FALSE), NilJSONOpt}, MaxJSONOpts)

\* The caller sets req.Output = OutputJSON(schema, opts...).
SetOutputJSON(opts) ==
    /\ phase = "build"
    /\ req' = [req EXCEPT !.Output = OutputJSONWith(opts)]
    /\ jsonOpts' = opts
    /\ UNCHANGED <<client, phase, result, dispatched, resolved, vendor, returns, errVars,
                   auxVars, sniffCall, textResult, built, fileFromPath, shared, callers>>

InitJSON ==
    /\ client \in {NewClient(GeminiProvider), NewClient(OpenAIProvider)}
    /\ InitRequest
    /\ InitNoError
    /\ InitNoAux
    /\ InitNoExt

NextJSON ==
    \/ \E input \in {InputText("a"), InputImage(PNGData, "cat.png")} : AppendInput(input)
    \/ \E opts \in JSONOptLists : SetOutputJSON(opts)
    \/ \E out \in VendorAnswers \cup {VendorOK("[]", <<>>)} : Generate(out)
    \/ NewRequest

SpecJSON == InitJSON /\ [][NextJSON]_vars

-----------------------------------------------------------------------------
(* Provider construction: gemini.New and openai.New (specification SpecNew) *)

MaxNewOpts == 2

\* strings.TrimSpace on the values the model draws: " " is all blanks.
TrimSpace(s) == IF s = " " THEN "" ELSE s

\* The environment: the value of each variable, "" when it is unset or empty.
Getenv(environ, name) == IF name \in DOMAIN environ THEN environ[name] ELSE ""

DefaultEnv(pkg) == IF pkg = "gemini" THEN "GEMINI_API_KEY" ELSE "OPENAI_API_KEY"

\* The provider options of New.
WithAPIKey(key) == [kind |-> "WithAPIKey", arg |-> key]
WithAPIKeyFromEnv(env) == [kind |-> "WithAPIKeyFromEnv", arg |-> env]
WithTextModel(model) == [kind |-> "WithTextModel", arg |-> model]

ErrAPIKeyRequired(pkg) ==
    PlainError(IF pkg = "gemini" THEN "gemini: API key required"
               ELSE "openai: API key required")

\* settings{textModel: DefaultTextModelName, ...}
defaultSettings(pkg) ==
    [apiKey |-> "", apiKeySet |-> FALSE,
     textModel |-> IF pkg = "gemini" THEN GeminiProvider.textModel
                   ELSE OpenAIProvider.textModel]

\* opt(&cfg): the Gemini package reads the variable as it is, the OpenAI
\* package trims it.
applyOption(pkg, s, opt, environ) ==
    IF opt.kind = "WithAPIKey" THEN [s EXCEPT !.apiKeySet = TRUE, !.apiKey = opt.arg]
    ELSE IF opt.kind = "WithAPIKeyFromEnv"
    THEN LET v == IF pkg = "gemini" THEN Getenv(environ, opt.arg)
                  ELSE TrimSpace(Getenv(environ, opt.arg))
         IN IF v # "" THEN [s EXCEPT !.apiKeySet = TRUE, !.apiKey = v]
            ELSE [s EXCEPT !.apiKeySet = TRUE]
    ELSE [s EXCEPT !.textModel = opt.arg]

RECURSIVE applyOptions(_, _, _)
applyOptions(pkg, opts, environ) ==
    IF opts = <<>> THEN defaultSettings(pkg)
    ELSE applyOption(pkg, applyOptions(pkg, SubSeq(opts, 1, Len(opts) - 1), environ),
                     opts[Len(opts)], environ)

\* Faulty variant: an empty key falls back to the default variable even when
\* a key option was given.
resolveAPIKeyFallingBack(pkg, cfg, environ) ==
    IF cfg.apiKey # "" THEN [apiKey |-> cfg.apiKey, err |-> nil]
    ELSE LET v == TrimSpace(Getenv(environ, DefaultEnv(pkg)))
         IN [apiKey |-> v, err |-> IF v = "" THEN ErrAPIKeyRequired(pkg) ELSE nil]

\* The switch of New on cfg.apiKeySet and cfg.apiKey.
resolveAPIKey(pkg, cfg, environ) ==
    IF cfg.apiKeySet /\ cfg.apiKey = "" THEN [apiKey |-> "", err |-> ErrAPIKeyRequired(pkg)]
    ELSE IF ~cfg.apiKeySet /\ cfg.apiKey = ""
    THEN LET v == TrimSpace(Getenv(environ, DefaultEnv(pkg)))
         IN [apiKey |-> v, err |-> IF v = "" THEN ErrAPIKeyRequired(pkg) ELSE nil]
    ELSE [apiKey |-> cfg.apiKey, err |-> nil]

NoProvider == [kind |-> "nil", apiKey |-> "", textModel |-> ""]

\* New(opts...): the provider and the error. sdkOK tells whether
\* genai.NewClient succeeds; openai.NewClient cannot fail.
New(pkg, opts, environ, sdkOK) ==
    LET cfg == applyOptions(pkg, opts, environ)
        key == resolveAPIKey(pkg, cfg, environ)
    IN IF key.err # nil THEN [provider |-> NoProvider, err |-> key.err]
       ELSE IF pkg = "gemini" /\ ~sdkOK
       THEN [provider |-> NoProvider, err |-> Wrap(PlainError("genai.NewClient failed"))]
       ELSE [provider |-> [kind |-> pkg, apiKey |-> key.apiKey, textModel |-> cfg.textModel],
             err |-> nil]

NewOptions ==
    {WithAPIKey(""), WithAPIKey("dummy"), WithAPIKeyFromEnv("MY_KEY"), WithTextModel("X")}

Environments ==
    [{"GEMINI_API_KEY", "OPENAI_API_KEY", "MY_KEY"} -> {"", " ", "from-env"}]

CallNew(pkg, opts, environ, sdkOK) ==
    /\ built = NoCall
    /\ built' = [call |-> "New", pkg |-> pkg, opts |-> opts, environ |-> environ,
                 sdkOK |-> sdkOK] @@ New(pkg, opts, environ, sdkOK)
    /\ UNCHANGED <<coreVars, jsonOpts, sniffCall, textResult, fileFromPath, shared, callers>>

\* The caller takes the result; the next construction starts afresh.
TakeBuilt ==
    /\ built # NoCall
    /\ built' = NoCall
    /\ UNCHANGED <<coreVars, jsonOpts, sniffCall, textResult, fileFromPath, shared, callers>>

InitNew ==
    /\ client = NewClient(NilProvider)
    /\ InitRequest
    /\ InitNoError
    /\ InitNoAux
    /\ InitNoExt

NextNew ==
    \/ \E pkg \in {"gemini", "openai"}, opts \in SeqsUpTo(NewOptions, MaxNewOpts),
          environ \in Environments, sdkOK \in BOOLEAN :
           CallNew(pkg, opts, environ, sdkOK)
    \/ TakeBuilt

SpecNew == InitNew /\ [][NextNew]_vars

-----------------------------------------------------------------------------
(* InputFileFromPath and detectMIMEFromPath (specification SpecPath) *)

\* A path is the sequence of its pieces: names, and the separators "." and "/".
\* strings.LastIndex(path, "."): the position of the last ".", -1 without one.
LastIndex(path, piece) ==
    LET at == {i \in 1..Len(path) : path[i] = piece}
    IN IF at = {} THEN -1 ELSE CHOOSE i \in at : \A j \in at : j <= i

\* strings.ToLower on the names the model draws.
ToLower(s) ==
    LET upper == <<"PDF", "PNG", "JPG", "JPEG", "GIF", "WEBP", "TXT", "MD", "MARKDOWN",
                   "HTML", "HTM", "JSON", "GO", "XYZ">>
        lower == <<"pdf", "png", "jpg", "jpeg", "gif", "webp", "txt", "md", "markdown",
                   "html", "htm", "json", "go", "xyz">>
    IN [i \in 1..Len(s) |->
            IF \E k \in 1..Len(upper) : upper[k] = s[i]
            THEN lower[CHOOSE k \in 1..Len(upper) : upper[k] = s[i]]
            ELSE s[i]]

MIMEMarkdown == <<"text", "/", "markdown">>
MIMEHTML == <<"text", "/", "html">>
MIMEJSON == <<"application", "/", "json">>
MIMEGo == <<"text", "/", "x-go">>

\* The slice expression path[from:] of Go: it panics when from is negative.
Panic == [panic |-> TRUE, s |-> <<>>]
SliceFrom(path, from) ==
    IF from < 1 \/ from > Len(path) + 1 THEN Panic
    ELSE [panic |-> FALSE, s |-> SubSeq(path, from, Len(path))]

detectMIMEFromPath(path) ==
    LET tail == SliceFrom(path, LastIndex(path, "."))
        ext == ToLower(tail.s)
    IN IF tail.panic THEN [panic |-> TRUE, mime |-> MIMEEmpty]
       ELSE [panic |-> FALSE,
             mime |-> IF ext = <<".", "pdf">> THEN MIMEPDF
                      ELSE IF ext = <<".", "png">> THEN MIMEPNG
                      ELSE IF ext \in {<<".", "jpg">>, <<".", "jpeg">>} THEN MIMEJPEG
                      ELSE IF ext = <<".", "gif">> THEN MIMEGIF
                      ELSE IF ext = <<".", "webp">> THEN MIMEWebP
                      ELSE IF ext = <<".", "txt">> THEN MIMEText
                      ELSE IF ext \in {<<".", "md">>, <<".", "markdown">>} THEN MIMEMarkdown
                      ELSE IF ext \in {<<".", "html">>, <<".", "htm">>} THEN MIMEHTML
                      ELSE IF ext = <<".", "json">> THEN MIMEJSON
                      ELSE IF ext = <<".", "go">> THEN MIMEGo
                      ELSE MIMEOctet]

\* os.ReadFile(path) on a file system fs: the bytes, or a failure.
ReadFile(fs, path) ==
    IF fs.readable THEN [data |-> fs.data, err |-> nil]
    ELSE [data |-> Bytes(<<>>), err |-> PlainError("open: no such file or directory")]

\* InputFileFromPath(path): the Input and the error, or a panic.
inputFileFromPath(fs, path) ==
    LET read == ReadFile(fs, path)
        detected == detectMIMEFromPath(path)
    IN IF read.err # nil
       THEN [input |-> NoInput, panic |-> FALSE,
             err |-> WithCause(NewGrailError(InvalidArgument, "failed to read file"), read.err)]
       ELSE IF detected.panic THEN [input |-> NoInput, panic |-> TRUE, err |-> nil]
       ELSE [input |-> InputFile(read.data, detected.mime, ""), panic |-> FALSE, err |-> nil]

Extensions ==
    {"pdf", "png", "jpg", "jpeg", "gif", "webp", "txt", "md", "markdown", "html", "htm",
     "json", "go", "xyz",
     "PDF", "PNG", "JPG", "JPEG", "GIF", "WEBP", "TXT", "MD", "MARKDOWN", "HTML", "HTM",
     "JSON", "GO", "XYZ"}

Paths ==
    {<<"file", ".", ext>> : ext \in Extensions}
    \cup {<<"Makefile">>, <<"dir", "/", "LICENSE">>, <<"archive", ".", "tar", ".", "gz">>,
          <<"photo", ".", "backup", ".", "png">>, <<"dir", ".", "d", "/", "Makefile">>,
          <<".", "gitignore">>, <<"notes", ".">>}

FileSystems ==
    {[readable |-> FALSE, data |-> Bytes(<<>>)]}
    \cup {[readable |-> TRUE, data |-> d] : d \in {Bytes(<<>>), PNGData, PDFData}}

InputFileFromPath(fs, path) ==
    /\ fileFromPath' = [call |-> "InputFileFromPath", fs |-> fs, path |-> path]
                           @@ inputFileFromPath(fs, path)
    /\ UNCHANGED <<coreVars, jsonOpts, sniffCall, textResult, built, shared, callers>>

InitPath ==
    /\ client = NewClient(NilProvider)
    /\ InitRequest
    /\ InitNoError
    /\ InitNoAux
    /\ InitNoExt

NextPath == \E fs \in FileSystems, path \in Paths : InputFileFromPath(fs, path)

SpecPath == InitPath /\ [][NextPath]_vars

-----------------------------------------------------------------------------
(* The tier slots of the Gemini provider (specification SpecTiers) *)

\* The models of the package, and one of the caller's own.
GeminiModels ==
    {Gemini3Pro, Gemini3ProImage, Gemini3Flash, Gemini25FlashImage, Gemini25Flash,
     Gemini25FlashLite, Model("tuned-model", ModelRoleText, ModelTierBest)}

SetBestTextModel(model) ==
    /\ client.provider.bestTextModel # model
    /\ client' = [client EXCEPT !.provider.bestTextModel = model]
    /\ UNCHANGED <<req, phase, result, dispatched, resolved, vendor, returns, errVars,
                   auxVars, extVars>>

SetFastTextModel(model) ==
    /\ client.provider.fastTextModel # model
    /\ client' = [client EXCEPT !.provider.fastTextModel = model]
    /\ UNCHANGED <<req, phase, result, dispatched, resolved, vendor, returns, errVars,
                   auxVars, extVars>>

SetBestImageModel(model) ==
    /\ client.provider.bestImageModel # model
    /\ client' = [client EXCEPT !.provider.bestImageModel = model]
    /\ UNCHANGED <<req, phase, result, dispatched, resolved, vendor, returns, errVars,
                   auxVars, extVars>>

SetFastImageModel(model) ==
    /\ client.provider.fastImageModel # model
    /\ client' = [client EXCEPT !.provider.fastImageModel = model]
    /\ UNCHANGED <<req, phase, result, dispatched, resolved, vendor, returns, errVars,
                   auxVars, extVars>>

InitTiers ==
    /\ client = NewClient(GeminiProvider)
    /\ InitRequest
    /\ InitNoError
    /\ InitNoAux
    /\ InitNoExt

NextTiers ==
    \/ \E model \in GeminiModels : SetBestTextModel(model)
    \/ \E model \in GeminiModels : SetFastTextModel(model)
    \/ \E model \in GeminiModels : SetBestImageModel(model)
    \/ \E model \in GeminiModels : SetFastImageModel(model)

SpecTiers == InitTiers /\ [][NextTiers]_vars

-----------------------------------------------------------------------------
(* Properties of Generate (specifications Spec and SpecAdapter) *)

Returned == phase = "done"

\* Generate returned InvalidArgument and never called the provider's DoGenerate.
Rejected ==
    /\ Returned
    /\ GetErrorCode(result.err) = InvalidArgument
    /\ dispatched = <<>>

\* Generate called the provider's DoGenerate, once.
Dispatched == Returned /\ Len(dispatched) = 1

InputIndices == 1..Len(req.Inputs)

IsPDFInput(input) == input.kind = "file" /\ input.MIME = MIMEPDF

\* An input as InputImage builds it: a file whose MIME is left empty.
IsImageInput(input) == input.kind = "file" /\ input.MIME = MIMEEmpty

\* C1: a request with no inputs, whatever its output, model, tier and options,
\* is answered InvalidArgument and DoGenerate is not called.
C1_EmptyInputsRejected ==
    (Returned /\ Len(req.Inputs) = 0) => Rejected

C1_Witness ==
    /\ Rejected
    /\ Len(req.Inputs) = 0
    /\ req.Output = OutputText
    /\ req.Model = "X"
    /\ req.Tier = ModelTierBest
    /\ req.ProviderOptions # <<>>
    /\ client.provider # NilProvider

\* C2: a request with inputs and a nil output is answered InvalidArgument and
\* DoGenerate is not called.
C2_MissingOutputRejected ==
    (Returned /\ Len(req.Inputs) > 0 /\ req.Output = NilOutput) => Rejected

C2_Witness ==
    /\ Rejected
    /\ req.Inputs = <<InputText("a")>>
    /\ req.Output = NilOutput
    /\ client.provider # NilProvider

\* C3: when the request names a model and a tier, ResolveModel is not called
\* and DoGenerate receives the request with that model name, whether or not
\* the resolver knows the tier.
C3_ModelBeatsTier ==
    (Returned /\ req.Model # "" /\ req.Tier # "") =>
        /\ resolved = <<>>
        /\ \A i \in 1..Len(dispatched) : dispatched[i].Model = req.Model
        /\ (validateRequest(req) = nil /\ client.provider # NilProvider) => Dispatched

C3_Witness ==
    /\ Dispatched
    /\ req.Model = "X"
    /\ req.Tier = TierBogus
    /\ IsModelResolver(client.provider)
    /\ ResolveModel(client.provider, roleFromOutput(req.Output), req.Tier).err # nil
    /\ resolved = <<>>
    /\ dispatched[1].Model = "X"

\* C4: in both adapters and for every output kind, the model of the vendor
\* call and the models the response reports are Request.Model when the
\* request the adapter receives names one.
C4_RequestModelWins ==
    (Dispatched /\ Len(vendor) = 1 /\ dispatched[1].Model # "") =>
        /\ vendor[1].model = dispatched[1].Model
        /\ result.err = nil =>
            result.resp.Provider.Models[1].Name = dispatched[1].Model

\* C5: a PDF of exactly MaxPDFSize bytes passes validation, a PDF of one byte
\* more is rejected by the PDF check, and a PDF above MaxFileSize is rejected
\* by the generic check, which comes first; MaxPDFSize is the smaller bound.
C5_PDFSizeBoundary ==
    /\ MaxPDFSize < MaxFileSize
    /\ Returned =>
        /\ \A i \in InputIndices :
            (IsPDFInput(req.Inputs[i]) /\ req.Inputs[i].Data.len > MaxPDFSize) => Rejected
        /\ ( /\ req.Output # NilOutput
             /\ \E i \in InputIndices :
                    IsPDFInput(req.Inputs[i]) /\ req.Inputs[i].Data.len = MaxPDFSize
             /\ \A i \in InputIndices :
                    \/ req.Inputs[i].kind = "text"
                    \/ /\ IsPDFInput(req.Inputs[i])
                       /\ req.Inputs[i].Data.len \in 1..MaxPDFSize
             /\ client.provider # NilProvider
             /\ req.Tier = "" )
           => Dispatched
        /\ (Len(req.Inputs) = 1 /\ req.Output # NilOutput /\ IsPDFInput(req.Inputs[1])) =>
            /\ req.Inputs[1].Data.len = MaxPDFSize + 1 =>
                result.err[1].message = "PDF file size exceeds maximum"
            /\ req.Inputs[1].Data.len > MaxFileSize =>
                result.err[1].message = "file size exceeds maximum"

C5_Witness ==
    /\ Dispatched
    /\ Len(req.Inputs) = 1
    /\ IsPDFInput(req.Inputs[1])
    /\ req.Inputs[1].Data.len = MaxPDFSize
    /\ dispatched[1].Inputs = req.Inputs

IsPNGImageInput(input) == IsImageInput(input) /\ HasPrefix(input.Data.head, PNGMagic)

\* C6 as claimed: the provider observes an InputImage of PNG bytes as a file
\* input whose MIME is image/png.
C6_SniffedMIMEDispatched ==
    Dispatched =>
        \A i \in InputIndices :
            IsPNGImageInput(req.Inputs[i]) =>
                /\ i <= Len(dispatched[1].Inputs)
                /\ dispatched[1].Inputs[i].kind = "file"
                /\ dispatched[1].Inputs[i].MIME = MIMEPNG

\* C6, amended: the provider observes an InputImage of PNG bytes as the file
\* input the caller gave, its MIME still empty; validation has only checked
\* that its bytes sniff as image/png.
C6_ImageDispatchedUnchanged ==
    Dispatched =>
        \A i \in InputIndices :
            IsPNGImageInput(req.Inputs[i]) =>
                /\ i <= Len(dispatched[1].Inputs)
                /\ dispatched[1].Inputs[i] = req.Inputs[i]
                /\ dispatched[1].Inputs[i].MIME = MIMEEmpty
                /\ SniffImageMIME(dispatched[1].Inputs[i].Data) = MIMEPNG

C6_Witness ==
    /\ Dispatched
    /\ \E i \in InputIndices : IsPNGImageInput(req.Inputs[i])
    /\ result.err = nil

\* The signatures of the supported image formats, on the leading bytes.
MatchesImageSignature(data) ==
    \/ HasPrefix(data.head, PNGMagic)
    \/ HasPrefix(data.head, <<255, 216>>)
    \/ HasPrefix(data.head, GIF87a)
    \/ HasPrefix(data.head, GIF89a)
    \/ /\ HasPrefix(data.head, RIFF)
       /\ Len(data.head) >= 12
       /\ SubSeq(data.head, 9, 12) = WEBP

\* C7: a request holding a file input with no declared MIME whose bytes match
\* no image signature is answered InvalidArgument and DoGenerate is not
\* called; InputImage itself built the input without failing.
C7_NonImageRejected ==
    Returned =>
        \A i \in InputIndices :
            (IsImageInput(req.Inputs[i]) /\ ~MatchesImageSignature(req.Inputs[i].Data))
                => Rejected

C7_Witness ==
    /\ Rejected
    /\ req.Inputs = <<InputImage(NotAnImage, "")>>
    /\ req.Output = OutputText
    /\ result.err[1].message = "expected image/*"
    /\ client.provider # NilProvider

\* The vendor part that stands for an input: the same text, or the same bytes.
PartMatches(input, part) ==
    \/ /\ input.kind = "text"
       /\ part.kind \in {"text", "input_text"}
       /\ part.Text = input.Text
    \/ /\ input.kind = "file"
       /\ \/ part.kind = "bytes" /\ part.Data = input.Data
          \/ part.kind = "input_image" /\ part.ImageURL.base64 = input.Data
          \/ part.kind = "input_file" /\ part.FileData.base64 = input.Data

PartsMatch(inputs, parts) ==
    /\ Len(parts) = Len(inputs)
    /\ \A i \in 1..Len(inputs) : PartMatches(inputs[i], parts[i])

SameInputs(given, observed) ==
    /\ Len(observed) = Len(given)
    /\ \A i \in 1..Len(given) :
        /\ observed[i].kind = given[i].kind
        /\ observed[i] = given[i]

\* The inputs an adapter refuses to convert.
Unconvertible(input) ==
    \/ input.kind = "fileReader"
    \/ /\ client.provider.kind = "openai"
       /\ IsPDFInput(input)
       /\ ~HasPrefix(input.Data.head, PDFMagic)

-----------------------------------------------------------------------------
(* Properties of the error model (specification SpecErr) *)

\* The GrailError IsRetryable finds in err: the error NewError built.
Subject == AsGrailError(err)

Asked == retryResult # "none" /\ Subject # nil

AsText(b) == IF b THEN "true" ELSE "false"

DefaultRetryable(code) == code \in {RateLimited, Timeout, Unavailable}

\* C9 as claimed: IsRetryable is true for RateLimited though WithRetryable was
\* never called, and false for InvalidArgument whatever the flag.
C9_InvalidArgumentNeverRetryable ==
    Asked =>
        /\ Subject[1].code = RateLimited => retryResult = "true"
        /\ Subject[1].code = InvalidArgument => retryResult = "false"

\* C9, amended: IsRetryable is true for RateLimited whatever the flag, also
\* when WithRetryable was never called; for InvalidArgument it is the flag:
\* false unless the last WithRetryable call passed true.
C9_RetryabilityDefaults ==
    Asked =>
        /\ Subject[1].code = RateLimited => retryResult = "true"
        /\ Subject[1].code = InvalidArgument =>
            retryResult = AsText(flagCalls # <<>> /\ flagCalls[Len(flagCalls)])

C9_Witness ==
    /\ Asked
    /\ err[1].kind = "grail"
    /\ err[1].code = RateLimited
    /\ flagCalls = <<>>
    /\ retryResult = "true"

\* C10: IsRetryable is the flag when WithRetryable was called, and the
\* default of the code only when it was never called.
C10_ExplicitFlagFirst ==
    Asked =>
        IF flagCalls # <<>>
        THEN retryResult = AsText(flagCalls[Len(flagCalls)])
        ELSE retryResult = AsText(DefaultRetryable(Subject[1].code))

-----------------------------------------------------------------------------
(* Further properties of Generate (specification Spec) *)

\* The request passes validation, the client has a provider to call, and the
\* resolution of its tier, if one is attempted, succeeds.
PassesResolution ==
    \/ req.Model # ""
    \/ req.Tier = ""
    \/ ~IsModelResolver(client.provider)
    \/ ResolveModel(client.provider, roleFromOutput(req.Output), req.Tier).err = nil

Admitted ==
    /\ Returned
    /\ validateRequest(req) = nil
    /\ IsProviderExecutor(client.provider)
    /\ PassesResolution

\* C11: for a request that passes validation and model resolution, on a
\* client whose provider has DoGenerate, Generate calls DoGenerate exactly
\* once, also when that call fails with a retryable error, and returns the
\* Response and the error of that call unchanged.
C11_SingleDispatchPassThrough ==
    /\ Returned => Len(dispatched) <= 1 /\ Len(returns) = Len(dispatched)
    /\ Admitted =>
        /\ Len(dispatched) = 1
        /\ result.resp = returns[1].resp
        /\ result.err = returns[1].err

C11_Witness ==
    /\ Admitted
    /\ Len(dispatched) = 1
    /\ returns[1].err # nil
    /\ IsRetryable(returns[1].err)
    /\ result.err = returns[1].err

-----------------------------------------------------------------------------
(* Properties of the response helpers (specification SpecResponse) *)

PartIndices == 1..Len(response.Outputs)

PartsOfKind(kind) == {i \in PartIndices : response.Outputs[i].kind = kind}

Least(S) == CHOOSE i \in S : \A j \in S : i <= j

\* C12: Images returns the payloads of all image parts, in the order of
\* Outputs, and ok exactly when there is one; Text returns the text of the
\* first text part, and ok exactly when there is one; parts of the other
\* variants are skipped.
C12_TextAndImagesHelpers ==
    /\ helperResult.call = "Images" =>
        /\ helperResult.ok <=> PartsOfKind("image") # {}
        /\ Len(helperResult.images) = Cardinality(PartsOfKind("image"))
        /\ \A k \in 1..Len(helperResult.images) :
            \E i \in PartsOfKind("image") :
                /\ Cardinality({j \in PartsOfKind("image") : j <= i}) = k
                /\ helperResult.images[k] = response.Outputs[i].Data
    /\ helperResult.call = "Text" =>
        /\ helperResult.ok <=> PartsOfKind("text") # {}
        /\ PartsOfKind("text") # {} =>
            helperResult.text = response.Outputs[Least(PartsOfKind("text"))].Text
        /\ PartsOfKind("text") = {} => helperResult.text = ""

C12_Witness ==
    /\ helperResult.call = "Images"
    /\ response.Outputs = <<NewImageOutputPart(Img2, MIMEJPEG), NewTextOutputPart("bye"),
                            NewImageOutputPart(Img1, MIMEPNG)>>
    /\ helperResult.images = <<Img2, Img1>>
    /\ helperResult.ok

\* C13: DecodeJSON on a response without JSON part (no parts at all, or only
\* text and image parts) returns an OutputInvalid error; when there is a JSON
\* part, the first one alone decides the outcome.
C13_DecodeJSONWithoutJSONPart ==
    helperResult.call = "DecodeJSON" =>
        /\ PartsOfKind("json") = {} =>
            /\ helperResult.err # nil
            /\ GetErrorCode(helperResult.err) = OutputInvalid
            /\ helperResult.decoded = ""
        /\ PartsOfKind("json") # {} =>
            LET first == response.Outputs[Least(PartsOfKind("json"))].JSON IN
            IF IsJSON(first)
            THEN helperResult.err = nil /\ helperResult.decoded = first
            ELSE helperResult.err # nil /\ helperResult.decoded = ""

C13_Witness ==
    /\ helperResult.call = "DecodeJSON"
    /\ response.Outputs = <<NewTextOutputPart("hello"), NewImageOutputPart(Img1, MIMEPNG)>>
    /\ GetErrorCode(helperResult.err) = OutputInvalid

-----------------------------------------------------------------------------
(* Properties of the validator, of tier resolution (specification Spec) *)

IsFileInput(input) == input.kind = "file"

AllTextInputs ==
    /\ Len(req.Inputs) > 0
    /\ \A i \in InputIndices : req.Inputs[i].kind = "text"

\* C14: a request holding, at any index, a file input whose payload is empty
\* or longer than MaxFileSize is answered InvalidArgument and DoGenerate is
\* not called; a request of text inputs only, with its output set, passes
\* validation: it reaches DoGenerate whenever the client has a provider to
\* call and the resolution of its tier does not fail.
C14_FilePayloadLimits ==
    Returned =>
        /\ \A i \in InputIndices :
            ( /\ IsFileInput(req.Inputs[i])
              /\ \/ req.Inputs[i].Data.len = 0
                 \/ req.Inputs[i].Data.len > MaxFileSize )
            => Rejected
        /\ (AllTextInputs /\ req.Output # NilOutput) =>
            /\ Rejected => (~PassesResolution /\ resolved # <<>>)
            /\ (IsProviderExecutor(client.provider) /\ PassesResolution) => Dispatched

C14_Witness ==
    /\ Rejected
    /\ Len(req.Inputs) = 2
    /\ req.Inputs[1].kind = "text"
    /\ IsFileInput(req.Inputs[2])
    /\ req.Inputs[2].MIME = MIMEText
    /\ req.Inputs[2].Data.len = MaxFileSize + 1
    /\ req.Output = OutputText
    /\ client.provider # NilProvider

IsReaderInput(input) == input.kind = "fileReader"

\* A file-reader input the validator lets through.
AcceptableReader(input) ==
    /\ IsReaderInput(input)
    /\ input.MIME # MIMEEmpty
    /\ (input.Size <= 0 \/ input.Size <= MaxFileSize)

\* C15: a file-reader input is rejected with InvalidArgument when its
\* declared MIME is empty, and when its declared size is positive and above
\* MaxFileSize; otherwise it is accepted, a size of 0 or -1 included, and
\* reaches the provider as declared, nothing being sniffed.
C15_FileReaderValidation ==
    Returned =>
        /\ \A i \in InputIndices :
            ( /\ IsReaderInput(req.Inputs[i])
              /\ \/ req.Inputs[i].MIME = MIMEEmpty
                 \/ req.Inputs[i].Size > 0 /\ req.Inputs[i].Size > MaxFileSize )
            => Rejected
        /\ ( /\ Len(req.Inputs) > 0
             /\ \A i \in InputIndices :
                    req.Inputs[i].kind = "text" \/ AcceptableReader(req.Inputs[i])
             /\ req.Output # NilOutput
             /\ IsProviderExecutor(client.provider)
             /\ PassesResolution )
           => /\ Dispatched
              /\ dispatched[1].Inputs = req.Inputs

C15_Witness ==
    /\ Dispatched
    /\ req.Inputs = <<InputFileReader(-1, MIMEText, ""), InputFileReader(0, MIMEText, "")>>
    /\ dispatched[1].Inputs = req.Inputs

\* The role each output variant asks for.
ExpectedRole(output) ==
    CASE output.kind = "text" -> ModelRoleText
      [] output.kind = "image" -> ModelRoleImage
      [] output.kind = "json" -> ModelRoleText

\* A valid request that names a tier and no model, on a client with a provider.
TierOnly ==
    /\ Returned
    /\ validateRequest(req) = nil
    /\ IsProviderExecutor(client.provider)
    /\ req.Model = ""
    /\ req.Tier # ""

\* C16: for a request with a tier and no model, Generate calls ResolveModel
\* exactly once, with the role of the output variant (text for a text or a
\* JSON output, image for an image output) and the tier, and DoGenerate
\* receives the request with Model set to the resolved name; a provider
\* without ModelResolver is not asked and DoGenerate receives Model empty.
C16_TierResolution ==
    TierOnly =>
        IF IsModelResolver(client.provider)
        THEN /\ resolved = <<<<ExpectedRole(req.Output), req.Tier>>>>
             /\ LET rm == ResolveModel(client.provider, ExpectedRole(req.Output), req.Tier)
                IN rm.err = nil =>
                    /\ Dispatched
                    /\ dispatched[1].Model = rm.name
                    /\ dispatched[1] = [req EXCEPT !.Model = rm.name]
        ELSE /\ resolved = <<>>
             /\ Dispatched
             /\ dispatched[1].Model = ""
             /\ dispatched[1] = req

C16_Witness ==
    /\ TierOnly
    /\ IsModelResolver(client.provider)
    /\ req.Output = OutputJSON(TRUE)
    /\ req.Tier = ModelTierBest
    /\ resolved = <<<<ModelRoleText, ModelTierBest>>>>
    /\ Dispatched
    /\ dispatched[1].Model = "resolved-best"

\* C17: when the resolver fails for the role and tier, Generate returns an
\* InvalidArgument error whose cause chain holds the resolver's error, and
\* DoGenerate is not called.
C17_ResolutionFailure ==
    ( /\ TierOnly
      /\ IsModelResolver(client.provider)
      /\ ResolveModel(client.provider, ExpectedRole(req.Output), req.Tier).err # nil )
    => /\ Rejected
       /\ result.err[1].kind = "grail"
       /\ LET cause == ResolveModel(client.provider, ExpectedRole(req.Output), req.Tier).err
          IN /\ Len(result.err) = 1 + Len(cause)
             /\ SubSeq(result.err, 2, Len(result.err)) = cause
       /\ returns = <<>>

C17_Witness ==
    /\ TierOnly
    /\ IsModelResolver(client.provider)
    /\ req.Tier = TierBogus
    /\ Rejected
    /\ Len(result.err) = 2
    /\ result.err[2].kind = "plain"
    /\ resolved = <<<<ExpectedRole(req.Output), TierBogus>>>>

-----------------------------------------------------------------------------
(* Properties of the model catalog (specification SpecCatalog) *)

Catalog == client.provider.models

\* The catalog entries of the role and tier the last GetModel asked for.
Matches ==
    {i \in 1..Len(Catalog) :
        Catalog[i].Role = lookup.role /\ Catalog[i].Tier = lookup.tier}

\* C18: on a client whose provider has DoGenerate, GetModel returns the first
\* entry, in catalog order, of the provider's ListModels result whose role
\* and tier equal the arguments, and fails with Unsupported when none does;
\* when the provider is no ModelLister, ListModels and GetModel fail with
\* Unsupported; an error of the provider's ListModels is returned unchanged
\* by both.
C18_GetModelFirstMatch ==
    (lookup.call # "none" /\ IsProviderExecutor(client.provider)) =>
        IF ~client.provider.lister
        THEN /\ GetErrorCode(lookup.err) = Unsupported
             /\ lookup.models = <<>>
             /\ lookup.model = ZeroModelInfo
        ELSE IF client.provider.listErr # nil
        THEN /\ lookup.err = client.provider.listErr
             /\ lookup.call = "ListModels" => lookup.models = Catalog
             /\ lookup.call = "GetModel" => lookup.model = ZeroModelInfo
        ELSE /\ lookup.call = "ListModels" => (lookup.err = nil /\ lookup.models = Catalog)
             /\ lookup.call = "GetModel" =>
                IF Matches # {}
                THEN /\ lookup.err = nil
                     /\ lookup.model = Catalog[Least(Matches)]
                ELSE /\ GetErrorCode(lookup.err) = Unsupported
                     /\ lookup.model = ZeroModelInfo

C18_Witness ==
    /\ lookup.call = "GetModel"
    /\ client.provider.kind = "catalog"
    /\ client.provider.lister
    /\ client.provider.listErr = nil
    /\ Cardinality(Matches) = 2
    /\ lookup.model = Catalog[1]
    /\ lookup.model # Catalog[2]
    /\ lookup.err = nil

-----------------------------------------------------------------------------
(* Properties of the remote-fetch helpers (specification SpecFetch) *)

Fetched == fetched.call # "none"

\* httpClient.Do returned a response.
GotResponse == Fetched /\ fetched.exchange.uriOK /\ fetched.exchange.do = "response"

\* The body stream of the response delivers more bytes than the cap.
BodyOverCap == GotResponse /\ fetched.exchange.body.len > client.downloadMaxBytes

FetchRejected(code) ==
    /\ fetched.input = NoInput
    /\ fetched.err # nil
    /\ GetErrorCode(fetched.err) = code

\* The helper returns no Input longer than the cap and reads no more than
\* downloadMaxBytes + 1 bytes of the body.
FetchBounded ==
    /\ fetched.input # NoInput =>
        /\ fetched.err = nil
        /\ fetched.input.Data.len <= client.downloadMaxBytes
    /\ fetched.bytesRead <= client.downloadMaxBytes + 1
    /\ fetched.bytesRead <= fetched.exchange.body.len

ReadFailed ==
    /\ GotResponse
    /\ fetched.exchange.status = StatusOK
    /\ fetched.exchange.ContentLength <= client.downloadMaxBytes
    /\ fetched.exchange.body.len <= client.downloadMaxBytes
    /\ fetched.exchange.body.end # "EOF"

FlaggedRetryable == fetched.err # nil /\ fetched.err[1].kind = "grail" /\ fetched.err[1].retryable

\* C20: a context deadline that expires while the helper waits for the
\* response or reads the body yields a Timeout error flagged retryable; any
\* other failure of the transport yields an Unavailable error flagged
\* retryable.
C20_TransportFailuresClassified ==
    Fetched =>
        /\ (fetched.exchange.uriOK /\ fetched.exchange.do = "deadline")
            => (FetchRejected(Timeout) /\ FlaggedRetryable)
        /\ (fetched.exchange.uriOK /\ fetched.exchange.do = "reset")
            => (FetchRejected(Unavailable) /\ FlaggedRetryable)
        /\ (ReadFailed /\ fetched.exchange.body.end = "deadline")
            => (FetchRejected(Timeout) /\ FlaggedRetryable)
        /\ (ReadFailed /\ fetched.exchange.body.end = "reset")
            => (FetchRejected(Unavailable) /\ FlaggedRetryable)

-----------------------------------------------------------------------------
(* Status and Content-Type of a fetched response (specification SpecFetch) *)

\* The Content-Type header belongs to the family the called helper expects.
InFamily ==
    LET ct == fetched.exchange.ContentType
    IN CASE fetched.call = "InputImageFromURI" ->
                Len(ct) >= 2 /\ ct[1] = "image" /\ ct[2] = "/"
         [] fetched.call = "InputPDFFromURI" -> ct = <<"application", "/", "pdf">>
         [] OTHER -> TRUE

\* A response of status 200 whose body was read to its end within the cap.
ReadWhole ==
    /\ GotResponse
    /\ fetched.exchange.status = StatusOK
    /\ fetched.exchange.ContentLength <= client.downloadMaxBytes
    /\ fetched.exchange.body.len <= client.downloadMaxBytes
    /\ fetched.exchange.body.end = "EOF"

-----------------------------------------------------------------------------
(* Properties of SniffImageMIME (specification SpecSniff) *)

\* The slice is long enough for the signature and carries it at offset at.
HasSignature(data, at, sig) ==
    /\ data.len >= at + Len(sig)
    /\ \A i \in 1..Len(sig) : data.head[at + i] = sig[i]

\* The MIME type the signatures of the four formats give a slice.
SignatureMIME(data) ==
    IF HasSignature(data, 0, <<137, 80, 78, 71>>) THEN <<"image", "/", "png">>
    ELSE IF HasSignature(data, 0, <<255, 216>>) THEN <<"image", "/", "jpeg">>
    ELSE IF \/ HasSignature(data, 0, <<71, 73, 70, 56, 55, 97>>)
            \/ HasSignature(data, 0, <<71, 73, 70, 56, 57, 97>>)
        THEN <<"image", "/", "gif">>
    ELSE IF /\ HasSignature(data, 0, <<82, 73, 70, 70>>)
            /\ HasSignature(data, 8, <<87, 69, 66, 80>>)
        THEN <<"image", "/", "webp">>
    ELSE <<>>

\* C22: for a byte slice of every length, 0..3 bytes included, SniffImageMIME
\* returns image/png when the data starts with \x89PNG, image/jpeg when it
\* starts with the two bytes 0xFF 0xD8, image/gif when it starts with GIF87a
\* or GIF89a, image/webp when bytes 0..3 are RIFF and bytes 8..11 are WEBP,
\* and the empty string in every other case.
C22_SniffBySignature ==
    sniffCall.call = "SniffImageMIME" => sniffCall.mime = SignatureMIME(sniffCall.data)

-----------------------------------------------------------------------------
(* Properties of Client.GenerateText (specification SpecText) *)

TextCalled == textResult.call = "GenerateText"

\* The request sets both sampling options: neither pointer is nil.
SetsBoth(r) == r.Options.Temperature \in {"0", "0.5"} /\ r.Options.TopP \in {"0", "0.5"}

-----------------------------------------------------------------------------
(* Properties of a provider shared by concurrent callers (specification SpecShared) *)

\* The fields that make the configuration of the provider.
ConfigFields ==
    {"textModel", "imageModel", "bestTextModel", "fastTextModel", "bestImageModel",
     "fastImageModel", "log"}

\* Two callers are each about to access the same field, one of them writing.
RaceOn(field) ==
    \E i, j \in DOMAIN callers :
        /\ i # j
        /\ callers[i].todo # <<>> /\ callers[j].todo # <<>>
        /\ callers[i].todo[1].field = field /\ callers[j].todo[1].field = field
        /\ callers[i].todo[1].write

\* C24: under every interleaving of Generate, ListModels, GetModel and
\* NewClient calls that share one provider, each field of the provider's
\* configuration (default models, best/fast catalog slots, logger) keeps the
\* value it had when the provider was constructed, and no two calls are ever
\* about to access a field with one of them writing it.
C24_ProviderStateImmutable ==
    \A f \in ConfigFields :
        /\ shared[f] = (GeminiProvider @@ [log |-> "stderr"])[f]
        /\ ~RaceOn(f)

-----------------------------------------------------------------------------
(* Vendor failures of the adapters (specification SpecAdapter) *)

\* The adapter's DoGenerate returned the failure of its vendor call.
VendorFailed ==
    /\ Dispatched
    /\ Len(vendor) = 1
    /\ Len(returns[1].err) = 2
    /\ "text" \in DOMAIN returns[1].err[2]

\* The vendor error speaks of rate limiting, a timeout, HTTP 429 or HTTP 5xx.
IndicatesTransient(text) ==
    \E i \in 1..Len(text) :
        text[i] \in {"rate_limit", "timeout", "429", "500", "502", "503", "504"}

\* C25: every failure of the vendor call that an adapter's DoGenerate returns
\* is a GrailError that carries the name of the adapter's provider, and its
\* retryable flag is true whenever the vendor error indicates rate limiting,
\* a timeout, HTTP 429 or an HTTP 5xx status (500, 502, 503, 504).
C25_VendorFailuresClassified ==
    VendorFailed =>
        /\ returns[1].err[1].kind = "grail"
        /\ returns[1].err[1].providerName = client.provider.kind
        /\ IndicatesTransient(returns[1].err[2].text) => returns[1].err[1].retryable

-----------------------------------------------------------------------------
(* Properties of JSON output (specification SpecJSON) *)

\* The indices of the WithStrictJSON options among those given to OutputJSON.
StrictOpts == {i \in 1..Len(jsonOpts) : jsonOpts[i].kind = "WithStrictJSON"}

\* What the options ask for: the value of the last WithStrictJSON, or true.
WantedStrict ==
    IF StrictOpts = {} THEN TRUE
    ELSE \E i \in StrictOpts : (\A j \in StrictOpts : j <= i) /\ jsonOpts[i].strict

\* The text the vendor answered, when its call succeeded: the adapter either
\* returned it or refused it.
VendorAnswered == Dispatched /\ Len(vendor) = 1 /\ Len(returns[1].err) # 2

ParseableJSON(text) == text \in {"{}", "[]", "null"}

\* C26: the Strict of an OutputJSON is the value of the last WithStrictJSON
\* option given, and true when none is given. For a JSON-output request whose
\* vendor call succeeds, an adapter returns either one JSON output part (the
\* vendor text) and no error, or an empty Response and an OutputInvalid
\* error: with strict true the part is returned only if its text parses as
\* JSON; with strict false the part is always returned, its text unchecked.
C26_StrictJSON ==
    IsJSONOutput(req.Output) =>
        /\ req.Output.Strict = WantedStrict
        /\ VendorAnswered =>
            LET r == returns[1] IN
            /\ \/ /\ r.err = nil
                  /\ Len(r.resp.Outputs) = 1
                  /\ r.resp.Outputs[1].kind = "json"
               \/ /\ r.err # nil
                  /\ r.err[1].kind = "grail" /\ r.err[1].code = OutputInvalid
                  /\ r.resp = EmptyResponse
            /\ (WantedStrict /\ r.err = nil) => ParseableJSON(r.resp.Outputs[1].JSON)
            /\ ~WantedStrict => r.err = nil

C26_Witness ==
    /\ IsJSONOutput(req.Output)
    /\ jsonOpts = <<[kind |-> "WithStrictJSON", strict |-> TRUE],
                    [kind |-> "WithStrictJSON", strict |-> FALSE]>>
    /\ VendorAnswered
    /\ returns[1].err = nil
    /\ returns[1].resp.Outputs = <<[kind |-> "json", JSON |-> "ok"]>>

-----------------------------------------------------------------------------
(* Properties of provider construction (specification SpecNew) *)

Built == built.call = "New"

\* The options of the call that name an API key.
KeyOpts == {i \in 1..Len(built.opts) : built.opts[i].kind \in {"WithAPIKey", "WithAPIKeyFromEnv"}}

\* The value the default environment variable of the package holds, blanks
\* trimmed.
DefaultKey ==
    LET v == built.environ[IF built.pkg = "gemini" THEN "GEMINI_API_KEY" ELSE "OPENAI_API_KEY"]
    IN IF v = " " THEN "" ELSE v

\* The key one option yields: the string given, or the value of the variable
\* named (which the OpenAI package trims).
Yields(opt) ==
    IF opt.kind = "WithAPIKey" THEN opt.arg
    ELSE LET v == built.environ[opt.arg]
         IN IF built.pkg = "openai" /\ v = " " THEN "" ELSE v

KeyRequired == built.err # nil /\ built.err[1].message \in
                   {"gemini: API key required", "openai: API key required"}

\* New returned a provider that holds key.
BuiltWith(key) == built.err = nil /\ built.provider.kind = built.pkg /\ built.provider.apiKey = key

\* The construction of the vendor SDK's client succeeds.
SDKBuilds == built.pkg = "openai" \/ built.sdkOK

\* C27: gemini.New and openai.New resolve the API key as follows. With one
\* key option (WithAPIKey or WithAPIKeyFromEnv) that yields an empty value,
\* New fails with ErrAPIKeyRequired, whatever the default environment
\* variable holds; with one that yields a non-empty key, New does not fail
\* with ErrAPIKeyRequired and the provider it builds holds that key. With no
\* key option the default environment variable of the package is used, and
\* New fails with ErrAPIKeyRequired when it is empty or unset. With several
\* key options the default variable is never used either: New fails with
\* ErrAPIKeyRequired or builds a provider that holds a key one of them yields.
C27_APIKeyResolution ==
    Built =>
        /\ KeyOpts = {} =>
            /\ DefaultKey = "" => KeyRequired
            /\ DefaultKey # "" => (~KeyRequired /\ (SDKBuilds => BuiltWith(DefaultKey)))
        /\ \A i \in KeyOpts :
            KeyOpts = {i} =>
                /\ Yields(built.opts[i]) = "" => KeyRequired
                /\ Yields(built.opts[i]) # "" =>
                    (~KeyRequired /\ (SDKBuilds => BuiltWith(Yields(built.opts[i]))))
        /\ KeyOpts # {} =>
            \/ KeyRequired
            \/ built.err # nil /\ ~SDKBuilds
            \/ \E i \in KeyOpts : Yields(built.opts[i]) # "" /\ BuiltWith(Yields(built.opts[i]))

C27_Witness ==
    /\ Built
    /\ built.opts = <<[kind |-> "WithAPIKeyFromEnv", arg |-> "MY_KEY"]>>
    /\ built.environ["MY_KEY"] = ""
    /\ built.environ["GEMINI_API_KEY"] = "from-env"
    /\ built.pkg = "gemini"
    /\ KeyRequired

-----------------------------------------------------------------------------
(* Properties of InputFileFromPath (specification SpecPath) *)

FromPathCalled == fileFromPath.call = "InputFileFromPath"

\* The piece after the last "." of the path, in lower case; "" without a ".".
ExtensionOf(path) ==
    LET dots == {i \in 1..Len(path) : path[i] = "."}
        names == {k \in 1..Len(path) : (\A d \in dots : d < k) /\ dots # {}}
        lowered == [PDF |-> "pdf", PNG |-> "png", JPG |-> "jpg", JPEG |-> "jpeg",
                    GIF |-> "gif", WEBP |-> "webp", TXT |-> "txt", MD |-> "md",
                    MARKDOWN |-> "markdown", HTML |-> "html", HTM |-> "htm",
                    JSON |-> "json", GO |-> "go", XYZ |-> "xyz"]
    IN IF Cardinality(names) # 1 THEN ""
       ELSE LET name == path[CHOOSE k \in names : TRUE]
            IN IF name \in DOMAIN lowered THEN lowered[name] ELSE name

\* The fixed table of extensions; every other extension, and none, is
\* application/octet-stream.
TableMIME(ext) ==
    CASE ext = "pdf" -> <<"application", "/", "pdf">>
      [] ext = "png" -> <<"image", "/", "png">>
      [] ext \in {"jpg", "jpeg"} -> <<"image", "/", "jpeg">>
      [] ext = "gif" -> <<"image", "/", "gif">>
      [] ext = "webp" -> <<"image", "/", "webp">>
      [] ext = "txt" -> <<"text", "/", "plain">>
      [] ext \in {"md", "markdown"} -> <<"text", "/", "markdown">>
      [] ext \in {"html", "htm"} -> <<"text", "/", "html">>
      [] ext = "json" -> <<"application", "/", "json">>
      [] ext = "go" -> <<"text", "/", "x-go">>
      [] OTHER -> <<"application", "/", "octet-stream">>

\* C28: for every path whose file can be read, InputFileFromPath returns,
\* without crashing, a file input that holds the bytes of the file and the
\* MIME the extension table gives the extension of the path, case ignored;
\* a path with an unknown extension or with no "." at all (Makefile) gets
\* application/octet-stream. A path that cannot be read yields an
\* InvalidArgument error.
C28_FileFromPathTotal ==
    FromPathCalled =>
        /\ ~fileFromPath.panic
        /\ fileFromPath.fs.readable =>
            /\ fileFromPath.err = nil
            /\ fileFromPath.input.kind = "file"
            /\ fileFromPath.input.Data = fileFromPath.fs.data
            /\ fileFromPath.input.MIME = TableMIME(ExtensionOf(fileFromPath.path))
        /\ ~fileFromPath.fs.readable =>
            /\ fileFromPath.input = NoInput
            /\ GetErrorCode(fileFromPath.err) = InvalidArgument

-----------------------------------------------------------------------------
(* Properties of the Gemini tier slots (specification SpecTiers) *)

\* The names of the models the package registers under no tier.
UntieredNames == {"gemini-2.5-flash", "gemini-2.5-flash-lite"}

\* C29: after any sequence of SetBestTextModel, SetFastTextModel,
\* SetBestImageModel and SetFastImageModel calls on the Gemini provider, for
\* every role in {text, image} and tier in {best, fast}, ResolveModel(role,
\* tier) succeeds, Client.GetModel(role, tier) succeeds and both name the
\* same model; and ResolveModel never returns a model registered under no
\* tier.
C29_ResolverAgreesWithCatalog ==
    \A role \in {"text", "image"}, tier \in {"best", "fast"} :
        LET resolvedName == ResolveModel(client.provider, role, tier)
            found == GetModel(client, role, tier)
        IN /\ resolvedName.err = nil
           /\ found.err = nil
           /\ found.model.Name = resolvedName.name
           /\ resolvedName.name \notin UntieredNames

-----------------------------------------------------------------------------
(* Properties of the Gemini generation parameters (specification SpecAdapter) *)

GeminiCalled == client.provider.kind = "gemini" /\ phase = "done" /\ Len(vendor) = 1

\* The indices of the caller's Gemini options of the type the output asks for.
WantedOptionIndices ==
    {i \in 1..Len(req.ProviderOptions) :
        /\ req.ProviderOptions[i].pkg = "gemini"
        /\ req.ProviderOptions[i].type =
               (IF IsImageOutput(req.Output) THEN "ImageOptions" ELSE "TextOptions")}

LastWantedOption ==
    req.ProviderOptions[CHOOSE i \in WantedOptionIndices :
                            \A j \in WantedOptionIndices : j <= i]

\* C30: whenever the Gemini adapter calls the vendor, the generation
\* parameters of the call are those of the request's last Gemini
\* TextOptions (ImageOptions for an image output), or none when the request
\* carries no such option, whether the model was named by Request.Model,
\* resolved from Request.Tier or left to the provider default.
C30_ParametersIndependentOfModelChoice ==
    GeminiCalled =>
        IF WantedOptionIndices = {}
        THEN /\ vendor[1].config.SystemInstruction = ""
             /\ vendor[1].config.Temperature = Unset
             /\ vendor[1].config.TopP = Unset
        ELSE /\ vendor[1].config.SystemInstruction = LastWantedOption.SystemPrompt
             /\ IsImageOutput(req.Output)
                \/ /\ vendor[1].config.Temperature = LastWantedOption.Temperature
                   /\ vendor[1].config.TopP = LastWantedOption.TopP

====
